---- MODULE Spec2Model ----
(***************************************************************************)
(* A state-machine model of the simulation core of "The Depths of Ether":  *)
(* level generation (map_gen.py), enemy AI and status effects              *)
(* (enemy_ai.py, player.py) and combat / turn orchestration (main.py).     *)
(*                                                                         *)
(* The module holds several specifications over one set of variables:      *)
(*   SpecGen     DungeonMap.generate, one room-placement attempt per step  *)
(*   SpecReveal  DungeonMap.reveal_around                                   *)
(*   SpecStatus  apply_status and _tick_statuses of Enemy and Player        *)
(*   SpecPath    Enemy.path_towards on small grids                          *)
(*   SpecCombat  combat_loop, one choice or one enemy attack per step       *)
(*   SpecWorld   main_loop turns: command, update_enemies, combat           *)
(*   SpecCrowd   the same turns on a level of three rooms                   *)
(*   SpecTurn    Enemy.take_turn of one enemy, turn after turn              *)
(*   SpecSeed    the generator each probabilistic step of a run draws from  *)
(*   SpecItems   the item operations of Inventory and Player                *)
(*   SpecMap     reveal, tile writes, item placement and generate on a map  *)
(*   SpecDuel    combat_loop of a faint player, run to its end              *)
(*   SpecPlayer  the Player's own operations on its vitals and experience   *)
(*   SpecSiege   the turns of SpecCrowd with a player one blow from death   *)
(*   SpecChase   one aggressive enemy pursuing a player who stands still    *)
(* Each keeps the variables it does not use at their idle values.          *)
(***************************************************************************)
EXTENDS Integers, Sequences, FiniteSets, TLC

VARIABLES
    tiles,            \* DungeonMap.tiles: coordinate -> tile kind
    rooms,            \* DungeonMap.rooms: sequence of Room records
    start_position,   \* DungeonMap.start_position
    stairs_position,  \* DungeonMap.stairs_position
    visible,          \* DungeonMap.visible
    revealed,         \* DungeonMap.revealed
    attempts,         \* generate: iterations of the placement loop done so far
    gpc,              \* generate: "idle" | "rooms" | "done" | "raised"
    player,           \* GameState.player: a Player record
    enemies,          \* GameState.enemies: sequence of Enemy records (the roster)
    ops,              \* operations applied so far, where a bound caps them
    combat,           \* combat_loop: its position, its locals and what it has granted
    world,            \* main_loop / update_enemies: position, roster index, occupied set
    runs,             \* two runs of the program side by side, each with its generator
    last              \* the last operation applied, with its arguments and pre-state

mapVars == <<tiles, rooms, start_position, stairs_position, visible, revealed, attempts, gpc>>
agentVars == <<player, enemies>>
ctlVars == <<combat, world, runs>>
nonMapVars == <<player, enemies, ops, combat, world, runs>>
vars == <<tiles, rooms, start_position, stairs_position, visible, revealed,
          attempts, gpc, player, enemies, ops, combat, world, runs, last>>

----------------------------------------------------------------------------
(* Bounds.  The map and the room sizes are scaled down from the game's      *)
(* 40 x 40 map, 12 rooms and room sizes 5..9 (map_gen.py:49, 159, 160).     *)
MapWidth == 7
MapHeight == 6
MaxRooms == 2
MinSize == 1
MaxSize == 2
MaxRadius == 1
MaxApply == 3
MaxDur == 2
MaxObstacles == 2

TILE_WALL == "#"
TILE_FLOOR == "."
TILE_SAFE == "S"
TILE_TREASURE == "$"
TILE_STAIRS == ">"

GenRevealRadius == 6

Coords == (0 .. MapWidth - 1) \X (0 .. MapHeight - 1)

Abs(n) == IF n < 0 THEN -n ELSE n
Min2(a, b) == IF a < b THEN a ELSE b
Max2(a, b) == IF a > b THEN a ELSE b
Manhattan(p, q) == Abs(p[1] - q[1]) + Abs(p[2] - q[2])

NoLast == [op |-> "none"]

----------------------------------------------------------------------------
(* Room (map_gen.py:19-43) *)
Room(x1, y1, x2, y2) == [x1 |-> x1, y1 |-> y1, x2 |-> x2, y2 |-> y2]

center(r) == <<(r.x1 + r.x2) \div 2, (r.y1 + r.y2) \div 2>>

intersects(r, o) == ~(r.x2 < o.x1 \/ r.x1 > o.x2 \/ r.y2 < o.y1 \/ r.y1 > o.y2)

room_tiles(r) == (r.x1 .. r.x2) \X (r.y1 .. r.y2)

----------------------------------------------------------------------------
(* DungeonMap tile helpers (map_gen.py:106-119), on a dungeon record
   [width, height, tiles] and, for the map in play, on its tile function t *)
\* DungeonMap.__init__ (map_gen.py:53): every tile a wall
AllWallsOf(w, h) == [c \in (0 .. w - 1) \X (0 .. h - 1) |-> TILE_WALL]

\* the map under generation or in play has the model's dimensions
Dungeon(t) == [width |-> MapWidth, height |-> MapHeight, tiles |-> t]

dungeon_in_bounds(d, p) == 0 <= p[1] /\ p[1] < d.width /\ 0 <= p[2] /\ p[2] < d.height

dungeon_get_tile(d, p) == IF ~dungeon_in_bounds(d, p) THEN TILE_WALL ELSE d.tiles[p]

dungeon_is_walkable(d, p) ==
    dungeon_get_tile(d, p) \in {TILE_FLOOR, TILE_SAFE, TILE_TREASURE, TILE_STAIRS}

in_bounds(p) == dungeon_in_bounds([width |-> MapWidth, height |-> MapHeight], p)

get_tile(t, p) == dungeon_get_tile(Dungeon(t), p)

\* set_tile applied to every coordinate of S: out-of-bounds writes are dropped
set_tiles(t, S, v) == [c \in Coords |-> IF c \in S THEN v ELSE t[c]]

is_walkable(t, p) == dungeon_is_walkable(Dungeon(t), p)

AllWalls == AllWallsOf(MapWidth, MapHeight)

----------------------------------------------------------------------------
(* reveal / reveal_around (map_gen.py:121-133): the result is the pair of   *)
(* the new visible set and the new revealed set.                            *)
reveal_square(p, radius) ==
    ((p[1] - radius) .. (p[1] + radius)) \X ((p[2] - radius) .. (p[2] + radius))

reveal_lit(p, radius) ==
    {c \in reveal_square(p, radius) : in_bounds(c) /\ Manhattan(p, c) <= radius}

\* variant: visible is not cleared before the lit coordinates are added
reveal_around_visible_NoClear(vis, p, radius) == vis \cup reveal_lit(p, radius)

\* visible.clear(), then every lit coordinate is added
reveal_around_visible(vis, p, radius) ==
    LET cleared == vis \ vis IN cleared \cup reveal_lit(p, radius)

reveal_around_revealed(rev, p, radius) == rev \cup reveal_lit(p, radius)

----------------------------------------------------------------------------
(* Status-effect maps.  A Python dict keeps insertion order and the tick    *)
(* loops iterate in that order, so a map is a sequence of <<kind, turns>>   *)
(* entries with pairwise distinct kinds.                                    *)
StatusKinds == {"burn", "poison", "freeze", "fear"}

st_has(st, k) == \E i \in 1 .. Len(st) : st[i][1] = k

\* dict.get(k, default)
st_get(st, k, default) ==
    IF st_has(st, k) THEN st[CHOOSE i \in 1 .. Len(st) : st[i][1] = k][2] ELSE default

\* dict[k] = v: an existing key keeps its place, a new key goes last
st_set(st, k, v) ==
    IF st_has(st, k)
    THEN [i \in 1 .. Len(st) |-> IF st[i][1] = k THEN <<k, v>> ELSE st[i]]
    ELSE Append(st, <<k, v>>)

\* dict.pop(k, None) for every k of ks
st_pop_all(st, ks) ==
    LET keep(en) == en[1] \notin ks IN SelectSeq(st, keep)

st_kinds(st) == {st[i][1] : i \in 1 .. Len(st)}

\* variant: the new duration overwrites the remaining one
apply_status_Overwrite(st, status, duration) ==
    IF duration <= 0 THEN st ELSE st_set(st, status, duration)

\* apply_status (enemy_ai.py:138-143, player.py:393-398), on the status map
apply_status(st, status, duration) ==
    IF duration <= 0
    THEN st
    ELSE st_set(st, status, Max2(st_get(st, status, 0), duration))

----------------------------------------------------------------------------
(* Enemy (enemy_ai.py:25-54) and the species of enemy_factory                *)
(* (enemy_ai.py:288-463).  Probabilities are in hundredths.                  *)
NoItem == "None"

EnemyRecord(species, hp, attack, defense, xp, pos, drops, phase, radius, awake, pers, inflict, crit, block, boss) ==
    [species |-> species, hp |-> hp, attack |-> attack, defense |-> defense,
     xp_reward |-> xp, position |-> pos, drop_table |-> drops, can_phase |-> phase,
     aggressive_radius |-> radius, awakened |-> awake, personality |-> pers,
     status_effects |-> <<>>, status_inflictions |-> inflict,
     critical_chance |-> crit, armor_block |-> block, boss |-> boss, max_hp |-> hp]

enemy_factory(enemy_type, position) ==
    CASE enemy_type = "Ghost" ->
           EnemyRecord("Ghost", 22, 7, 1, 18, position, <<<<"Essence", 60, 1>>>>,
                       TRUE, 8, TRUE, "cautious", <<<<"freeze", 3>>>>, 5, 5, FALSE)
      [] enemy_type = "Rat" ->
           EnemyRecord("Rat", 10, 4, 0, 6, position, <<<<"Meat", 40, 1>>>>,
                       FALSE, 5, TRUE, "aggressive", <<<<"poison", 2>>>>, 5, 5, FALSE)
      [] enemy_type = "Skeleton" ->
           EnemyRecord("Skeleton", 26, 6, 3, 14, position,
                       <<<<"Bone", 50, 1>>, <<"Bandage", 20, 1>>>>,
                       FALSE, 6, TRUE, "aggressive", <<<<"fear", 2>>>>, 5, 5, FALSE)
      [] enemy_type = "Shadowling" ->
           EnemyRecord("Shadowling", 20, 6, 1, 15, position,
                       <<<<"Essence", 30, 1>>, <<"Torch", 20, 1>>>>,
                       FALSE, 7, TRUE, "ambusher", <<<<"fear", 3>>>>, 5, 5, FALSE)
      [] enemy_type = "Mimic" ->
           EnemyRecord("Mimic", 28, 8, 4, 22, position,
                       <<<<"Ether Potion", 50, 1>>, <<"Essence", 40, 1>>>>,
                       FALSE, 4, FALSE, "ambusher", <<<<"poison", 3>>>>, 5, 5, FALSE)
      [] enemy_type = "Ether Guardian" ->
           EnemyRecord("Ether Guardian", 60, 12, 6, 60, position,
                       <<<<"Ancient Relic", 100, 1>>, <<"Legendary Elixir", 70, 1>>>>,
                       FALSE, 10, TRUE, "aggressive", <<<<"burn", 4>>>>, 15, 20, TRUE)
      [] enemy_type = "Shadow Queen" ->
           EnemyRecord("Shadow Queen", 80, 14, 7, 90, position,
                       <<<<"Ancient Relic", 100, 2>>, <<"Ether Repeater", 60, 1>>>>,
                       FALSE, 12, TRUE, "cautious", <<<<"fear", 5>>, <<"poison", 4>>>>,
                       20, 25, TRUE)
      [] OTHER ->
           EnemyRecord(enemy_type, 18, 5, 1, 8, position, <<>>,
                       FALSE, 6, TRUE, "aggressive", <<>>, 5, 5, FALSE)

is_alive(e) == e.hp > 0

\* _status_message: every known kind has a non-empty message
status_message(status) == status

\* Enemy._tick_statuses (enemy_ai.py:108-136): the loop over the snapshot
\* list(self.status_effects.items()) from entry i on.  The freeze branch
\* returns from inside the loop: the entries after it are not visited and
\* nothing is popped.
RECURSIVE enemy_tick_loop(_, _, _, _, _)
enemy_tick_loop(e, items, i, expired, message) ==
    IF i > Len(items)
    THEN LET e2 == [e EXCEPT !.status_effects = st_pop_all(e.status_effects, expired)]
         IN [e |-> e2, msg |-> IF e2.hp <= 0 THEN "succumbs" ELSE message]
    ELSE
      LET status == items[i][1]
          turns == items[i][2]
      IN
        IF turns <= 0
        THEN enemy_tick_loop(e, items, i + 1, expired \cup {status}, message)
        ELSE IF status = "freeze"
        THEN [e |-> [e EXCEPT !.status_effects = st_set(e.status_effects, status, turns - 1)],
              msg |-> status_message(status)]
        ELSE
          LET e1 == CASE status = "burn" -> [e EXCEPT !.hp = Max2(0, e.hp - 3)]
                      [] status = "poison" -> [e EXCEPT !.hp = Max2(0, e.hp - 2)]
                      [] status = "fear" ->
                           [e EXCEPT !.aggressive_radius = Max2(3, e.aggressive_radius - 1)]
                      [] OTHER -> e
              e2 == [e1 EXCEPT !.status_effects = st_set(e1.status_effects, status, turns - 1)]
          IN IF turns - 1 <= 0
             THEN enemy_tick_loop(e2, items, i + 1, expired \cup {status}, message)
             ELSE enemy_tick_loop(e2, items, i + 1, expired, status_message(status))

\* the result is [e |-> the enemy after the tick, msg |-> the message or "none"]
enemy_tick_statuses(e) ==
    IF Len(e.status_effects) = 0
    THEN [e |-> e, msg |-> "none"]
    ELSE enemy_tick_loop(e, e.status_effects, 1, {}, "none")

enemy_apply_status(e, status, duration) ==
    [e EXCEPT !.status_effects = apply_status(e.status_effects, status, duration)]

----------------------------------------------------------------------------
(* Enemy.path_towards (enemy_ai.py:145-187) and Enemy.neighbours            *)
(* (enemy_ai.py:204-209).  NoStep stands for Python's None.                  *)
NoStep == <<>>

neighbours(pos) ==
    << <<pos[1] + 1, pos[2]>>, <<pos[1] - 1, pos[2]>>,
       <<pos[1], pos[2] + 1>>, <<pos[1], pos[2] - 1>> >>

\* variant: the occupied set is not consulted
path_admits_IgnoreOccupied(d, n, target, occupied, allow_walls) ==
    /\ dungeon_in_bounds(d, n)
    /\ (allow_walls \/ dungeon_is_walkable(d, n))

\* variant: walls are let in whether or not allow_walls is set
path_admits_ThroughWalls(d, n, target, occupied, allow_walls) ==
    /\ dungeon_in_bounds(d, n)
    /\ ~(n \in occupied /\ n # target)

\* the tests of lines 164-173 that let neighbour n into the search
path_admits(d, n, target, occupied, allow_walls) ==
    /\ dungeon_in_bounds(d, n)
    /\ ~(~allow_walls /\ ~dungeon_is_walkable(d, n))
    /\ \/ (allow_walls /\ dungeon_get_tile(d, n) = TILE_WALL)
       \/ dungeon_is_walkable(d, n)
    /\ ~(n \in occupied /\ n # target)

\* variant: the neighbours of current are visited in the opposite order
RECURSIVE path_expand_Reversed(_, _, _, _, _, _, _, _)
path_expand_Reversed(d, target, occupied, allow_walls, current, k, queue, came_from) ==
    IF k > 4
    THEN <<queue, came_from>>
    ELSE LET n == neighbours(current)[5 - k] IN
         IF path_admits(d, n, target, occupied, allow_walls) /\ n \notin DOMAIN came_from
         THEN path_expand_Reversed(d, target, occupied, allow_walls, current, k + 1,
                                   Append(queue, n), came_from @@ (n :> current))
         ELSE path_expand_Reversed(d, target, occupied, allow_walls, current, k + 1,
                                   queue, came_from)

\* lines 163-177: the neighbours of current from the k-th on; the result is
\* the pair <<queue, came_from>>
RECURSIVE path_expand(_, _, _, _, _, _, _, _)
path_expand(d, target, occupied, allow_walls, current, k, queue, came_from) ==
    IF k > 4
    THEN <<queue, came_from>>
    ELSE LET n == neighbours(current)[k] IN
         IF path_admits(d, n, target, occupied, allow_walls) /\ n \notin DOMAIN came_from
         THEN path_expand(d, target, occupied, allow_walls, current, k + 1,
                          Append(queue, n), came_from @@ (n :> current))
         ELSE path_expand(d, target, occupied, allow_walls, current, k + 1, queue, came_from)

\* lines 159-179: the while loop; the result is came_from at the break, or
\* NoStep when the queue runs empty (the loop's else branch)
RECURSIVE path_search(_, _, _, _, _, _)
path_search(d, target, occupied, allow_walls, queue, came_from) ==
    IF Len(queue) = 0
    THEN NoStep
    ELSE LET current == Head(queue) IN
         IF current = target
         THEN came_from
         ELSE LET r == path_expand(d, target, occupied, allow_walls, current, 1,
                                   Tail(queue), came_from)
              IN path_search(d, target, occupied, allow_walls, r[1], r[2])

\* lines 182-187: back along the predecessor chain to the node after start
RECURSIVE path_walk_back(_, _, _)
path_walk_back(came_from, start, current) ==
    IF came_from[current] = start
    THEN current
    ELSE IF came_from[current] = NoStep
    THEN NoStep
    ELSE path_walk_back(came_from, start, came_from[current])

path_towards(d, start, target, occupied, allow_walls) ==
    IF start = target
    THEN start
    ELSE LET came_from == path_search(d, target, occupied, allow_walls,
                                      <<start>>, (start :> NoStep))
         IN IF came_from = NoStep THEN NoStep
            ELSE IF target \notin DOMAIN came_from THEN NoStep
            ELSE path_walk_back(came_from, start, target)

----------------------------------------------------------------------------
(* ITEM_LIBRARY (inventory.py:47-282) and Inventory (inventory.py:285-385). *)
(* An effect record carries every key the code reads, with the default of   *)
(* the code's effect.get(key, default); weights are in tenths.              *)
ItemDefaults ==
    [type |-> "consumable", weight |-> 10, attack_bonus |-> 0, crit_bonus |-> 0,
     weapon_class |-> "melee", durability |-> 0, status |-> NoItem,
     defense_bonus |-> 0, block_chance |-> 5, heal |-> 0, stamina |-> 0,
     sanity |-> 0, hunger |-> 0, light_bonus |-> 0, duration |-> 20]

ItemNames ==
    {"Torch", "Dagger", "Ether Blade", "Bone Bow", "Ether Repeater", "Hide Armor",
     "Bread", "Bandage", "Legendary Elixir", "Ether Potion", "Meat", "Essence",
     "Bone", "Ancient Relic"}

ITEM_LIBRARY(name) ==
    CASE name = "Torch" ->
           [type |-> "utility", weight |-> 10, light_bonus |-> 3, duration |-> 30]
             @@ ItemDefaults
      [] name = "Dagger" ->
           [type |-> "weapon", weight |-> 20, attack_bonus |-> 2, durability |-> 45,
            crit_bonus |-> 5] @@ ItemDefaults
      [] name = "Ether Blade" ->
           [type |-> "weapon", weight |-> 30, attack_bonus |-> 7, durability |-> 120,
            crit_bonus |-> 15, status |-> "burn"] @@ ItemDefaults
      [] name = "Bone Bow" ->
           [type |-> "weapon", weight |-> 25, attack_bonus |-> 2, weapon_class |-> "ranged",
            durability |-> 50, crit_bonus |-> 5] @@ ItemDefaults
      [] name = "Ether Repeater" ->
           [type |-> "weapon", weight |-> 30, attack_bonus |-> 5, weapon_class |-> "ranged",
            durability |-> 110, crit_bonus |-> 12, status |-> "fear"] @@ ItemDefaults
      [] name = "Hide Armor" ->
           [type |-> "armor", weight |-> 50, defense_bonus |-> 2, durability |-> 60,
            block_chance |-> 8] @@ ItemDefaults
      [] name = "Bread" ->
           [type |-> "food", weight |-> 5, heal |-> 5, hunger |-> 20] @@ ItemDefaults
      [] name = "Bandage" ->
           [type |-> "consumable", weight |-> 2, heal |-> 8] @@ ItemDefaults
      [] name = "Legendary Elixir" ->
           [type |-> "consumable", weight |-> 5, sanity |-> 30, stamina |-> 20,
            heal |-> 20] @@ ItemDefaults
      [] name = "Ether Potion" ->
           [type |-> "consumable", weight |-> 4, sanity |-> 20, stamina |-> 15]
             @@ ItemDefaults
      [] name = "Meat" -> [type |-> "ingredient", weight |-> 10] @@ ItemDefaults
      [] name = "Essence" -> [type |-> "ingredient", weight |-> 1] @@ ItemDefaults
      [] name = "Bone" -> [type |-> "ingredient", weight |-> 8] @@ ItemDefaults
      [] name = "Ancient Relic" -> [type |-> "ingredient", weight |-> 25] @@ ItemDefaults
      [] OTHER -> [type |-> "unknown"] @@ ItemDefaults

\* an inventory is [capacity, weight_limit, items], items the count of every name
EmptyItems == [n \in ItemNames |-> 0]

RECURSIVE SumOver(_, _)
SumOver(f, S) ==
    IF S = {} THEN 0
    ELSE LET x == CHOOSE y \in S : TRUE IN f[x] + SumOver(f, S \ {x})

total_weight(inv) ==
    SumOver([n \in ItemNames |-> ITEM_LIBRARY(n).weight * inv.items[n]], ItemNames)

is_full(inv) == Cardinality({n \in ItemNames : inv.items[n] > 0}) >= inv.capacity

has_item(inv, name) == name \in ItemNames /\ inv.items[name] >= 1

\* Inventory.add_item: [ok, inv, raised]; raised is the ValueError of line
\* 311 for a name outside the library; the weight test
\* projected > weight_limit * 1.5 is taken in twentieths
add_item(inv, name, quantity) ==
    IF name \notin ItemNames
    THEN [ok |-> FALSE, inv |-> inv, raised |-> TRUE]
    ELSE
      LET projected == total_weight(inv) + ITEM_LIBRARY(name).weight * quantity
          added == [inv EXCEPT !.items[name] = @ + quantity]
      IN IF inv.items[name] > 0
         THEN IF 2 * projected > inv.weight_limit * 3
              THEN [ok |-> FALSE, inv |-> inv, raised |-> FALSE]
              ELSE [ok |-> TRUE, inv |-> added, raised |-> FALSE]
         ELSE IF is_full(inv) THEN [ok |-> FALSE, inv |-> inv, raised |-> FALSE]
         ELSE IF 2 * projected > inv.weight_limit * 3
         THEN [ok |-> FALSE, inv |-> inv, raised |-> FALSE]
         ELSE [ok |-> TRUE, inv |-> added, raised |-> FALSE]

\* a variant of remove_item that leaves the stack as it was
remove_item_Keep(inv, name) == inv

\* Inventory.remove_item(name, 1)
remove_item(inv, name) ==
    IF name \in ItemNames /\ inv.items[name] >= 1
    THEN [inv EXCEPT !.items[name] = @ - 1]
    ELSE inv

\* the inventory default_player() fills (player.py:457-466)
default_inventory ==
    [capacity |-> 16, weight_limit |-> 450,
     items |-> [n \in ItemNames |->
                  CASE n = "Bread" -> 2
                    [] n \in {"Torch", "Dagger", "Bone Bow", "Bandage"} -> 1
                    [] OTHER -> 0]]

----------------------------------------------------------------------------
(* Player (player.py:23-65) as default_player() builds it (player.py:454-468) *)
default_player ==
    [max_hp |-> 36, hp |-> 36, max_stamina |-> 24, stamina |-> 24,
     max_sanity |-> 36, sanity |-> 36, max_hunger |-> 100, hunger |-> 100,
     level |-> 1, xp |-> 0, xp_to_next |-> 25, base_attack |-> 4, base_defense |-> 1,
     position |-> <<1, 1>>, melee_weapon |-> "Dagger", ranged_weapon |-> "Bone Bow",
     armor |-> NoItem, melee_durability |-> 45, ranged_durability |-> 50,
     armor_durability |-> 0, karma |-> 0, skill_points |-> 0, traits |-> {},
     status_effects |-> <<>>, fatigue |-> 0, max_fatigue |-> 100,
     light_radius |-> 5, light_bonus |-> 0, light_bonus_timer |-> 0,
     base_carry_capacity |-> 450, time_spent |-> 0, temperature |-> 60,
     hallucination_cooldown |-> 0, inventory |-> default_inventory]

\* Player.is_alive (player.py:444-445)
player_is_alive(p) == p.hp > 0 /\ p.sanity > 0

\* Player._tick_statuses (player.py:403-422), from entry i of the snapshot on
RECURSIVE player_tick_loop(_, _, _, _)
player_tick_loop(p, items, i, expired) ==
    IF i > Len(items)
    THEN [p EXCEPT !.status_effects = st_pop_all(p.status_effects, expired)]
    ELSE
      LET status == items[i][1]
          turns == items[i][2]
      IN
        IF turns <= 0
        THEN player_tick_loop(p, items, i + 1, expired \cup {status})
        ELSE
          LET p1 == CASE status = "burn" -> [p EXCEPT !.hp = Max2(0, p.hp - 2)]
                      [] status = "poison" ->
                           [p EXCEPT !.hp = Max2(0, p.hp - 1),
                                     !.sanity = Max2(0, p.sanity - 1)]
                      [] status = "freeze" -> [p EXCEPT !.stamina = Max2(0, p.stamina - 1)]
                      [] status = "fear" -> [p EXCEPT !.karma = Max2(-50, p.karma - 1)]
                      [] OTHER -> p
              p2 == [p1 EXCEPT !.status_effects = st_set(p1.status_effects, status, turns - 1)]
          IN player_tick_loop(p2, items, i + 1,
                 IF turns - 1 <= 0 THEN expired \cup {status} ELSE expired)

player_tick_statuses(p) == player_tick_loop(p, p.status_effects, 1, {})

player_apply_status(p, status, duration) ==
    [p EXCEPT !.status_effects = apply_status(p.status_effects, status, duration)]

----------------------------------------------------------------------------
(* Player statistics and equipment (player.py:142-160, 265-287, 332-390,    *)
(* 425-442)                                                                 *)
player_defense(p) ==
    LET b0 == IF p.armor = NoItem THEN 0 ELSE ITEM_LIBRARY(p.armor).defense_bonus
        b1 == IF "Bulwark" \in p.traits THEN b0 + 1 ELSE b0
        b2 == IF st_has(p.status_effects, "fear") THEN Max2(0, b1 - 1) ELSE b1
    IN p.base_defense + b2

armor_block_chance(p) ==
    LET base == IF p.armor = NoItem THEN 5 ELSE ITEM_LIBRARY(p.armor).block_chance
    IN IF "Bulwark" \in p.traits THEN base + 5 ELSE base

spend_stamina(p, amount) == [p EXCEPT !.stamina = Max2(0, p.stamina - amount)]

\* Player.gain_xp (player.py:268-287): the level-up loop after xp += amount
RECURSIVE level_up_loop(_)
level_up_loop(p) ==
    IF p.xp >= p.xp_to_next
    THEN level_up_loop(
           [p EXCEPT !.level = @ + 1, !.xp = p.xp - p.xp_to_next, !.xp_to_next = @ + 15,
                     !.max_hp = @ + 4, !.max_stamina = @ + 3, !.max_sanity = @ + 2,
                     !.base_attack = @ + 1, !.base_defense = @ + 1,
                     !.skill_points = @ + 1,
                     !.hp = p.max_hp + 4, !.stamina = p.max_stamina + 3,
                     !.sanity = p.max_sanity + 2])
    ELSE p

\* a variant of gain_xp that raises the level at most once per call
gain_xp_Once(p, amount) ==
    LET q == [p EXCEPT !.xp = @ + amount]
    IN IF q.xp >= q.xp_to_next
       THEN [q EXCEPT !.level = @ + 1, !.xp = q.xp - q.xp_to_next, !.xp_to_next = @ + 15,
                      !.max_hp = @ + 4, !.max_stamina = @ + 3, !.max_sanity = @ + 2,
                      !.base_attack = @ + 1, !.base_defense = @ + 1,
                      !.skill_points = @ + 1,
                      !.hp = q.max_hp + 4, !.stamina = q.max_stamina + 3,
                      !.sanity = q.max_sanity + 2]
       ELSE q

gain_xp(p, amount) == level_up_loop([p EXCEPT !.xp = @ + amount])

\* a variant of degrade_equipment that keeps a worn-out weapon in its slot
degrade_equipment_KeepSlot(p, weapon_type) ==
    IF weapon_type = "melee" /\ p.melee_weapon # NoItem
    THEN [p EXCEPT !.melee_durability = @ - 1]
    ELSE IF weapon_type = "ranged" /\ p.ranged_weapon # NoItem
    THEN [p EXCEPT !.ranged_durability = @ - 1]
    ELSE p

\* Player.degrade_equipment (player.py:425-433)
degrade_equipment(p, weapon_type) ==
    IF weapon_type = "melee" /\ p.melee_weapon # NoItem
    THEN [p EXCEPT !.melee_durability = @ - 1,
                   !.melee_weapon = IF p.melee_durability - 1 <= 0 THEN NoItem ELSE @]
    ELSE IF weapon_type = "ranged" /\ p.ranged_weapon # NoItem
    THEN [p EXCEPT !.ranged_durability = @ - 1,
                   !.ranged_weapon = IF p.ranged_durability - 1 <= 0 THEN NoItem ELSE @]
    ELSE p

degrade_armor(p) ==
    IF p.armor = NoItem THEN p
    ELSE IF p.armor_durability <= 0 THEN p
    ELSE [p EXCEPT !.armor_durability = @ - 1,
                   !.armor = IF p.armor_durability - 1 <= 0 THEN NoItem ELSE @]

\* Player.equip_item for a name of the library
equip_item(p, item_name) ==
    IF item_name \notin ItemNames THEN p     \* "The item feels inert."
    ELSE
    LET it == ITEM_LIBRARY(item_name) IN
    IF it.type = "weapon"
    THEN IF it.weapon_class = "ranged"
         THEN [p EXCEPT !.ranged_weapon = item_name, !.ranged_durability = it.durability]
         ELSE [p EXCEPT !.melee_weapon = item_name, !.melee_durability = it.durability]
    ELSE IF it.type = "armor"
    THEN [p EXCEPT !.armor = item_name, !.armor_durability = it.durability]
    ELSE p

use_item(p, item_name) ==
    IF ~has_item(p.inventory, item_name) THEN p
    ELSE
      LET it == ITEM_LIBRARY(item_name) IN
      IF it.type \in {"food", "consumable"}
      THEN LET p1 == [p EXCEPT !.hp = Min2(p.max_hp, p.hp + it.heal),
                               !.stamina = Min2(p.max_stamina, p.stamina + it.stamina),
                               !.sanity = Min2(p.max_sanity, p.sanity + it.sanity),
                               !.hunger = Min2(p.max_hunger, p.hunger + it.hunger)]
               p2 == IF it.status # NoItem THEN player_apply_status(p1, it.status, 3) ELSE p1
           IN [p2 EXCEPT !.inventory = remove_item(p2.inventory, item_name)]
      ELSE IF it.type \in {"weapon", "armor"}
      THEN equip_item(p, item_name)
      ELSE IF it.type = "utility" /\ it.light_bonus > 0
      THEN [p EXCEPT !.light_bonus = Max2(p.light_bonus, it.light_bonus),
                     !.light_bonus_timer = Max2(p.light_bonus_timer, it.duration),
                     !.inventory = remove_item(p.inventory, item_name)]
      ELSE p

----------------------------------------------------------------------------
(* Enemy.attack_damage, take_damage, roll_loot (enemy_ai.py:214-237) and    *)
(* player_attack (main.py:200-217).  A draw of rng.random() is given in     *)
(* hundredths, a draw of rng.randint as the integer drawn.                  *)

\* u_crit, u_inflict: rng.random(); spread: rng.randint(-1, 3); pick: the
\* index rng.choice takes.  The result is [base, inflicted], inflicted a
\* <<status, duration>> pair or NoStep for None.
attack_damage(e, u_crit, spread, u_inflict, pick) ==
    LET critical == u_crit < e.critical_chance
        base0 == Max2(1, e.attack + spread)
        base == IF critical THEN base0 + (base0 \div 2) ELSE base0
        inflicted == IF Len(e.status_inflictions) > 0 /\ u_inflict < 35
                     THEN e.status_inflictions[pick]
                     ELSE NoStep
    IN [base |-> base, inflicted |-> inflicted]

\* variant: the net damage is not raised to 1
take_damage_NoFloor(e, amount) ==
    [e |-> [e EXCEPT !.hp = e.hp - (amount - e.defense)], damage |-> amount - e.defense]

\* the result is [e |-> the enemy after the strike, damage |-> the value returned]
take_damage(e, amount) ==
    LET damage == Max2(1, amount - e.defense)
    IN [e |-> [e EXCEPT !.hp = e.hp - damage], damage |-> damage]

\* draws[i]: the rng.random() of drop-table entry i
RECURSIVE roll_loot_from(_, _, _)
roll_loot_from(e, draws, i) ==
    IF i > Len(e.drop_table) THEN <<>>
    ELSE LET entry == e.drop_table[i]
             got == IF draws[i] <= entry[2] THEN [k \in 1 .. entry[3] |-> entry[1]] ELSE <<>>
         IN got \o roll_loot_from(e, draws, i + 1)

roll_loot(e, draws) == roll_loot_from(e, draws, 1)

\* roll: rng.randint(1, 100); spread: rng.randint(0, 4); u_proc: rng.random().
\* The result is [e, damage, dealt, crit]: the enemy after the strike, the
\* damage handed to take_damage and the damage it returned.
player_attack(p, e, weapon, roll, spread, u_proc) ==
    LET unarmed == weapon = NoItem
        base_attack == IF unarmed THEN p.base_attack
                       ELSE p.base_attack + ITEM_LIBRARY(weapon).attack_bonus
        crit_bonus == IF unarmed THEN 5 ELSE 5 + ITEM_LIBRARY(weapon).crit_bonus
        status_effect == IF unarmed THEN NoItem ELSE ITEM_LIBRARY(weapon).status
        crit == roll <= crit_bonus
        damage0 == Max2(1, base_attack + spread)
        damage == IF crit THEN damage0 + (damage0 \div 2) ELSE damage0
        r == take_damage(e, damage)
        e2 == IF status_effect # NoItem /\ u_proc < 35
              THEN enemy_apply_status(r.e, status_effect, 3)
              ELSE r.e
    IN [e |-> e2, damage |-> damage, dealt |-> r.damage, crit |-> crit]

\* variant: a draw equal to the threshold also escapes
flee_succeeds_Inclusive(u) == u <= 45

\* the flee test of combat_loop (main.py:259), u a draw of rng.random()
flee_succeeds(u) == u < 45

----------------------------------------------------------------------------
(* Player upkeep (player.py:163-168, 191-262) *)
vision_radius(p) ==
    p.light_radius + p.light_bonus + (IF "Seer" \in p.traits THEN 1 ELSE 0)

overburdened(p) ==
    total_weight(p.inventory)
      > p.base_carry_capacity + (IF "Packrat" \in p.traits THEN 100 ELSE 0)

consume_resources(p) ==
    LET burden_penalty == IF overburdened(p) THEN 2 ELSE 1
        hunger == Max2(0, p.hunger - 1)
        stamina == Max2(0, p.stamina - burden_penalty)
        fatigue == Min2(p.max_fatigue, p.fatigue + 3)
        timer == IF p.light_bonus_timer > 0 THEN p.light_bonus_timer - 1
                 ELSE p.light_bonus_timer
    IN player_tick_statuses(
         [p EXCEPT !.hunger = hunger, !.stamina = stamina, !.fatigue = fatigue,
                   !.hp = IF hunger = 0 THEN Max2(0, p.hp - 1) ELSE p.hp,
                   \* one point for no stamina, one more for full fatigue
                   !.sanity = Max2(0, p.sanity - (IF stamina = 0 THEN 1 ELSE 0)
                                               - (IF fatigue >= p.max_fatigue THEN 1 ELSE 0)),
                   !.light_bonus_timer = timer,
                   !.light_bonus = IF p.light_bonus_timer > 0 /\ timer = 0 THEN 0 ELSE @])

\* a variant of rest that adds its gains without the caps
rest_Uncapped(p) ==
    LET p1 == consume_resources([p EXCEPT !.time_spent = @ + 1])
    IN [p1 EXCEPT !.stamina = p1.stamina + 4,
                  !.hp = p1.hp + 2,
                  !.sanity = p1.sanity + 1,
                  !.fatigue = Max2(0, p1.fatigue - 8)]

\* Player.rest(), not at a campfire
rest(p) ==
    LET p1 == consume_resources([p EXCEPT !.time_spent = @ + 1])
    IN [p1 EXCEPT !.stamina = Min2(p1.max_stamina, p1.stamina + 4),
                  !.hp = Min2(p1.max_hp, p1.hp + 2),
                  !.sanity = Min2(p1.max_sanity, p1.sanity + 1),
                  !.fatigue = Max2(0, p1.fatigue - 8)]

\* Player.sleep_turn(), not at a campfire
sleep_turn(p) ==
    LET p1 == consume_resources([p EXCEPT !.time_spent = @ + 1])
    IN [p1 EXCEPT !.fatigue = Max2(0, p1.fatigue - 20),
                  !.stamina = Min2(p1.max_stamina, p1.stamina + 4),
                  !.hp = Min2(p1.max_hp, p1.hp + 2),
                  !.sanity = Min2(p1.max_sanity, p1.sanity + 2),
                  !.temperature = Min2(75, Max2(50, p1.temperature + 2))]

\* Player.move onto a tile already known to be in bounds and walkable
move_to(p, target) == consume_resources([p EXCEPT !.position = target, !.time_spent = @ + 1])

\* trigger_random_event (main.py:162-180) for the event drawn: "none" when
\* the draw is not below the chance, "poison" for the environmental event
\* with the toxic-gas hazard, "hallucination" for a sanity loss of 5.  The
\* ether-storm timer of the event system is read by no code modelled here.
trigger_random_event(p, ev) ==
    LET p1 == CASE ev = "poison" -> player_apply_status(p, "poison", 3)
                [] ev = "hallucination" -> [p EXCEPT !.sanity = Max2(0, p.sanity - 5)]
                [] OTHER -> p
    IN IF p1.sanity < 25
       THEN IF p1.hallucination_cooldown <= 0
            THEN [p1 EXCEPT !.hallucination_cooldown = 6]
            ELSE [p1 EXCEPT !.hallucination_cooldown = @ - 1]
       ELSE p1

----------------------------------------------------------------------------
(* Enemy.take_turn (enemy_ai.py:64-106), _step_away (189-202) and the        *)
(* Shadowling's override (360-378).  A turn's result is                      *)
(* [e |-> the enemy, occupied |-> the occupied set, msg |-> what ended it]. *)
distance(e, other) == Manhattan(e.position, other)

\* the stable sort of line 193: farther from the player first, ties in the
\* neighbour order; then the first option that is free
\* variant: the sort puts the neighbour nearest to the player first
step_away_rank_Nearest(pos, player_pos, k) ==
    Cardinality({j \in 1 .. 4 :
        \/ Manhattan(neighbours(pos)[j], player_pos) < Manhattan(neighbours(pos)[k], player_pos)
        \/ /\ Manhattan(neighbours(pos)[j], player_pos) = Manhattan(neighbours(pos)[k], player_pos)
           /\ j < k}) + 1

step_away_rank(pos, player_pos, k) ==
    Cardinality({j \in 1 .. 4 :
        \/ Manhattan(neighbours(pos)[j], player_pos) > Manhattan(neighbours(pos)[k], player_pos)
        \/ /\ Manhattan(neighbours(pos)[j], player_pos) = Manhattan(neighbours(pos)[k], player_pos)
           /\ j < k}) + 1

step_away(e, d, player_pos, occupied) ==
    LET ok == {k \in 1 .. 4 :
                 /\ dungeon_in_bounds(d, neighbours(e.position)[k])
                 /\ dungeon_is_walkable(d, neighbours(e.position)[k])
                 /\ neighbours(e.position)[k] \notin occupied}
    IN IF ok = {} THEN NoStep
       ELSE neighbours(e.position)[
              CHOOSE k \in ok : \A j \in ok :
                step_away_rank(e.position, player_pos, k)
                  <= step_away_rank(e.position, player_pos, j)]

\* occupied.discard(self.position); self.position = to; occupied.add(to)
move_enemy(e, occupied, to) ==
    [e |-> [e EXCEPT !.position = to], occupied |-> (occupied \ {e.position}) \cup {to}]

\* variant: a dormant enemy stirs two tiles away
awakens_Radius2(e, player_pos) == distance(e, player_pos) <= 2

\* line 78: the test that ends an enemy's dormancy
awakens(e, player_pos) == distance(e, player_pos) <= 1

\* u_retreat: the rng.random() of line 84
enemy_take_turn(e0, d, player_pos, occupied, u_retreat) ==
    LET t == enemy_tick_statuses(e0)
        e == t.e
        retreat == step_away(e, d, player_pos, occupied)
        next_step == path_towards(d, e.position, player_pos, occupied, e.can_phase)
    IN IF t.msg # "none" THEN [e |-> e, occupied |-> occupied, msg |-> t.msg]
       ELSE IF ~e.awakened
       THEN IF awakens(e, player_pos)
            THEN [e |-> [e EXCEPT !.awakened = TRUE], occupied |-> occupied, msg |-> "reveals"]
            ELSE [e |-> e, occupied |-> occupied, msg |-> "none"]
       ELSE IF /\ e.personality = "cautious" /\ e.hp < e.max_hp \div 2
               /\ u_retreat < 40 /\ retreat # NoStep
       THEN move_enemy(e, occupied, retreat) @@ [msg |-> "retreats"]
       ELSE IF e.personality = "ambusher" /\ distance(e, player_pos) > 4
       THEN [e |-> e, occupied |-> occupied, msg |-> "none"]
       ELSE IF distance(e, player_pos) > e.aggressive_radius
       THEN [e |-> e, occupied |-> occupied, msg |-> "speak"]
       ELSE IF next_step # NoStep /\ next_step \notin occupied
       THEN move_enemy(e, occupied, next_step)
              @@ [msg |-> IF next_step = player_pos THEN "lunges" ELSE "speak"]
       ELSE [e |-> e, occupied |-> occupied, msg |-> "speak"]

\* the diagonal offsets of line 365, in the order written
FlankOffsets == << <<1, 1>>, <<-1, 1>>, <<1, -1>>, <<-1, -1>> >>

\* lines 362-377: u_flank is the rng.random() of line 362, order the
\* options after rng.shuffle (indices into FlankOffsets)
shadowling_flank(e, d, player_pos, occupied, u_flank, order) ==
    LET option(i) == <<e.position[1] + FlankOffsets[order[i]][1],
                       e.position[2] + FlankOffsets[order[i]][2]>>
        ok == {i \in 1 .. 4 : /\ dungeon_in_bounds(d, option(i))
                              /\ option(i) \notin occupied
                              /\ dungeon_is_walkable(d, option(i))}
    IN IF distance(e, player_pos) <= 2 /\ u_flank < 40 /\ ok # {}
       THEN move_enemy(e, occupied, option(CHOOSE i \in ok : \A j \in ok : i <= j))
       ELSE [e |-> e, occupied |-> occupied]

\* take_turn as dispatched on the enemy's class
take_turn(e, d, player_pos, occupied, u_flank, order, u_retreat) ==
    IF e.species = "Shadowling"
    THEN LET f == shadowling_flank(e, d, player_pos, occupied, u_flank, order)
         IN enemy_take_turn(f.e, d, player_pos, f.occupied, u_retreat)
    ELSE enemy_take_turn(e, d, player_pos, occupied, u_retreat)

\* what a turn meets on its way through Enemy.take_turn, after the flanking
\* move of a Shadowling and the status tick: whether it reaches line 83 (no
\* status note, the enemy aware), whether the cautious retreat of lines 83-91
\* is taken and where to, and the tests of lines 93-100 as the code would
\* evaluate them at that point
turn_view(e0, d, player_pos, occupied, u_flank, order, u_retreat) ==
    LET f == IF e0.species = "Shadowling"
             THEN shadowling_flank(e0, d, player_pos, occupied, u_flank, order)
             ELSE [e |-> e0, occupied |-> occupied]
        t == enemy_tick_statuses(f.e)
        e == t.e
        retreat == step_away(e, d, player_pos, f.occupied)
    IN [reached |-> t.msg = "none" /\ e.awakened,
        at |-> e.position,
        occupied |-> f.occupied,
        low |-> e.personality = "cautious" /\ e.hp < e.max_hp \div 2,
        retreated |-> /\ e.personality = "cautious" /\ e.hp < e.max_hp \div 2
                      /\ u_retreat < 40 /\ retreat # NoStep,
        retreat_to |-> retreat,
        ambush_far |-> e.personality = "ambusher" /\ distance(e, player_pos) > 4,
        out_of_radius |-> distance(e, player_pos) > e.aggressive_radius,
        next_step |-> path_towards(d, e.position, player_pos, f.occupied, e.can_phase)]

\* Player.apply_trait (player.py:310-330); weights are in tenths
apply_trait(p, trait) ==
    IF trait \in p.traits THEN p
    ELSE LET q == [p EXCEPT !.traits = @ \cup {trait}] IN
         CASE trait = "Mind Anchor" ->
                [q EXCEPT !.max_sanity = p.max_sanity + 10, !.sanity = p.max_sanity + 10]
           [] trait = "Quickstep" ->
                [q EXCEPT !.max_stamina = p.max_stamina + 6, !.stamina = p.max_stamina + 6]
           [] trait = "Vital Bloom" ->
                [q EXCEPT !.max_hp = p.max_hp + 8, !.hp = p.max_hp + 8]
           [] trait = "Packrat" -> [q EXCEPT !.base_carry_capacity = @ + 120]
           [] trait = "Seer" -> [q EXCEPT !.light_radius = @ + 1]
           [] trait = "Bulwark" -> [q EXCEPT !.base_defense = @ + 1]
           [] OTHER -> q

IdleCombat == [pc |-> "idle"]

IdleWorld == [pc |-> "idle"]

IdleRuns == <<>>

IdleAgents ==
    /\ player = default_player
    /\ enemies = <<>>
    /\ ops = 0
    /\ combat = IdleCombat
    /\ world = IdleWorld
    /\ runs = IdleRuns

----------------------------------------------------------------------------
(* Generation (map_gen.py:150-223) *)
create_room(t, r) == set_tiles(t, room_tiles(r), TILE_FLOOR)

carve_h(t, x1, x2, y) == set_tiles(t, (Min2(x1, x2) .. Max2(x1, x2)) \X {y}, TILE_FLOOR)

carve_v(t, y1, y2, x) == set_tiles(t, {x} \X (Min2(y1, y2) .. Max2(y1, y2)), TILE_FLOOR)

\* variant: only the first leg of the corridor is carved
create_corridor_OneLeg(t, s, e, coin) ==
    IF coin THEN carve_h(t, s[1], e[1], s[2]) ELSE carve_v(t, s[2], e[2], s[1])

\* coin: the outcome of rng.random() < 0.5
create_corridor(t, s, e, coin) ==
    IF coin
    THEN carve_v(carve_h(t, s[1], e[1], s[2]), s[2], e[2], e[1])
    ELSE carve_h(carve_v(t, s[2], e[2], s[1]), s[1], e[1], e[2])

mark_room(t, r, v) == set_tiles(t, room_tiles(r), v)

\* populate_enemy_spawns (map_gen.py:236-245): for every room but the first,
\* nothing, or one or two records <<enemy_type, <<x, y>>>> with x, y drawn
\* inside the room.  Two of the five enemy_types: the plain Enemy.take_turn
\* and the one species that overrides it.
SpawnTypes == {"Rat", "Shadowling"}

\* lines 239-245 for one room: no record (the draw of line 239 at 0.6 or
\* above), or count = 1 or 2 records
RoomSpawnsFrom(records) ==
    {<<>>} \cup {<<a>> : a \in records} \cup {<<a, b>> : a \in records, b \in records}

RoomSpawns(r) == RoomSpawnsFrom(SpawnTypes \X room_tiles(r))

\* three of these draws: no record, one record on the least x, y of lines
\* 242-243, and a second one on the greatest
RoomCornerSpawns(r) ==
    { <<>>, << <<"Rat", <<r.x1, r.y1>>>> >>,
      << <<"Rat", <<r.x1, r.y1>>>>, <<"Rat", <<r.x2, r.y2>>>> >> }

RECURSIVE CornerSpawnLists(_, _)
CornerSpawnLists(rs, i) ==
    IF i > Len(rs) THEN {<<>>}
    ELSE {a \o b : a \in RoomCornerSpawns(rs[i]), b \in CornerSpawnLists(rs, i + 1)}

RECURSIVE SpawnLists(_, _)
SpawnLists(rs, i) ==
    IF i > Len(rs) THEN {<<>>}
    ELSE {a \o b : a \in RoomSpawns(rs[i]), b \in SpawnLists(rs, i + 1)}

populate_enemy_spawns(rs) == SpawnLists(rs, 2)

\* variant: the loop of line 238 runs over every room, the first included
gen_enemy_spawns_AllRooms(rs) == CornerSpawnLists(rs, 1)

\* the lists generate draws here: the loop of line 238 over rooms[1:]
gen_enemy_spawns(rs) == CornerSpawnLists(rs, 2)

\* rng.randint(a, b): the values it may return; with b < a it raises
\* ValueError and returns none, and the draw set holds a alone as a stand-in
randint_raises(a, b) == b < a

randint_draws(a, b) == IF randint_raises(a, b) THEN {a} ELSE a .. b

\* generate, lines 151-158: reset before the placement loop
GenStart ==
    /\ gpc = "idle"
    /\ tiles' = AllWalls
    /\ rooms' = <<>>
    /\ revealed' = {}
    /\ attempts' = 0
    /\ gpc' = "rooms"
    /\ last' = [op |-> "generate_start"]
    /\ UNCHANGED <<start_position, stairs_position, visible>>
    /\ UNCHANGED nonMapVars

\* generate, lines 162-175: one iteration of the placement loop
GenAttempt(w, h, x, y, coin) ==
    /\ gpc = "rooms"
    /\ attempts < MaxRooms * 2
    /\ LET new_room == Room(x, y, x + w, y + h) IN
       IF randint_raises(1, MapWidth - w - 2) \/ randint_raises(1, MapHeight - h - 2)
       THEN /\ gpc' = "raised"
            /\ UNCHANGED <<tiles, rooms>>
       ELSE IF \E i \in 1 .. Len(rooms) : intersects(new_room, rooms[i])
       THEN UNCHANGED <<tiles, rooms, gpc>>
       ELSE /\ tiles' = IF Len(rooms) > 0
                        THEN create_corridor(create_room(tiles, new_room),
                                 center(rooms[Len(rooms)]), center(new_room), coin)
                        ELSE create_room(tiles, new_room)
            /\ rooms' = Append(rooms, new_room)
            /\ UNCHANGED gpc
    /\ attempts' = attempts + 1
    /\ last' = [op |-> "generate_attempt"]
    /\ UNCHANGED <<start_position, stairs_position, visible, revealed>>
    /\ UNCHANGED nonMapVars

\* the rooms after the fallback of lines 177-180
gen_rooms_final(rs) ==
    IF Len(rs) = 0 THEN <<Room(1, 1, MapWidth \div 2, MapHeight \div 2)>> ELSE rs

\* variant: the start is the tile diagonally before the first room's corner
gen_start_of_Corner(rs) == <<rs[1].x1 - 1, rs[1].y1 - 1>>

gen_start_of(rs) == center(rs[1])

gen_stairs_of(rs) == center(rs[Len(rs)])

\* the tiles after lines 177-193: fallback room, stairs, safe and treasure rooms
gen_tiles_final(t, rs0) ==
    LET rs == gen_rooms_final(rs0)
        t1 == IF Len(rs0) = 0 THEN create_room(t, rs[1]) ELSE t
        t2 == set_tiles(t1, {gen_stairs_of(rs)}, TILE_STAIRS)
        t3 == IF Len(rs) >= 2 THEN mark_room(t2, rs[(Len(rs) \div 2) + 1], TILE_SAFE) ELSE t2
        t4 == IF Len(rs) >= 3 THEN mark_room(t3, rs[Len(rs) - 1], TILE_TREASURE) ELSE t3
    IN t4

\* generate, lines 177-197, after the loop.  populate_items writes only
\* items; the list populate_enemy_spawns leaves in enemy_spawns is kept in
\* last.
GenFinish ==
    /\ gpc = "rooms"
    /\ attempts = MaxRooms * 2
    /\ rooms' = gen_rooms_final(rooms)
    /\ tiles' = gen_tiles_final(tiles, rooms)
    /\ start_position' = gen_start_of(gen_rooms_final(rooms))
    /\ stairs_position' = gen_stairs_of(gen_rooms_final(rooms))
    /\ visible' = reveal_around_visible(visible, gen_start_of(gen_rooms_final(rooms)), GenRevealRadius)
    /\ revealed' = reveal_around_revealed(revealed, gen_start_of(gen_rooms_final(rooms)), GenRevealRadius)
    /\ gpc' = "done"
    /\ \E spawns \in gen_enemy_spawns(gen_rooms_final(rooms)) :
         last' = [op |-> "generate", enemy_spawns |-> spawns]
    /\ UNCHANGED attempts
    /\ UNCHANGED nonMapVars

InitGen ==
    /\ tiles = AllWalls
    /\ rooms = <<>>
    /\ start_position = <<1, 1>>
    /\ stairs_position = <<MapWidth - 2, MapHeight - 2>>
    /\ visible = {}
    /\ revealed = {}
    /\ attempts = 0
    /\ gpc = "idle"
    /\ IdleAgents
    /\ last = NoLast

NextGen ==
    \/ GenStart
    \/ \E w \in MinSize .. MaxSize, h \in MinSize .. MaxSize :
         \E x \in randint_draws(1, MapWidth - w - 2), y \in randint_draws(1, MapHeight - h - 2) :
           \E coin \in BOOLEAN : GenAttempt(w, h, x, y, coin)
    \/ GenFinish

SpecGen == InitGen /\ [][NextGen]_vars

\* C37: in the map generate returns, with at least 2 rooms every tile of the
\* middle room (index number of rooms div 2) has kind Safe, and with at least
\* 3 rooms every tile of the second-to-last room has kind Treasure.
C37_SafeAndTreasureRooms ==
    gpc = "done" =>
        /\ Len(rooms) >= 2 =>
              \A c \in room_tiles(rooms[(Len(rooms) \div 2) + 1]) : tiles[c] = TILE_SAFE
        /\ Len(rooms) >= 3 =>
              \A c \in room_tiles(rooms[Len(rooms) - 1]) : tiles[c] = TILE_TREASURE

----------------------------------------------------------------------------
(* Reachability over walkable tiles (the claims' own yardstick) *)
WalkNeighbours(t, p) ==
    {q \in {<<p[1] + 1, p[2]>>, <<p[1] - 1, p[2]>>, <<p[1], p[2] + 1>>, <<p[1], p[2] - 1>>} :
        in_bounds(q) /\ is_walkable(t, q)}

RECURSIVE WalkClosure(_, _)
WalkClosure(t, S) ==
    LET T == S \cup UNION {WalkNeighbours(t, p) : p \in S}
    IN IF T = S THEN S ELSE WalkClosure(t, T)

WalkReach(t, p) == IF in_bounds(p) /\ is_walkable(t, p) THEN WalkClosure(t, {p}) ELSE {}

\* C1: after generate, every room's center is reachable from start_position
\* through 4-adjacent walkable tiles only.
C1_Connectivity ==
    gpc = "done" =>
        LET reach == WalkReach(tiles, start_position)
        IN \A i \in 1 .. Len(rooms) : center(rooms[i]) \in reach

C1_Witness ==
    /\ gpc = "done"
    /\ Len(rooms) >= 3
    /\ center(rooms[3]) \in WalkReach(tiles, start_position)
    /\ center(rooms[3])[1] # center(rooms[2])[1]
    /\ center(rooms[3])[2] # center(rooms[2])[2]

\* C2: after generate, start_position and stairs_position are in bounds and walkable.
C2_Bounded ==
    gpc = "done" =>
        /\ in_bounds(start_position) /\ is_walkable(tiles, start_position)
        /\ in_bounds(stairs_position) /\ is_walkable(tiles, stairs_position)

C2_Witness ==
    /\ gpc = "done"
    /\ Len(rooms) >= 2
    /\ start_position # stairs_position
    /\ tiles[stairs_position] = TILE_STAIRS
    /\ is_walkable(tiles, start_position)

\* the default map of DungeonMap.__init__ and the room sizes of generate
DefaultMapSize == 40
DefaultMinSize == 5
DefaultMaxSize == 9

\* C15: generate raises nothing whatever the draws, leaves at least one room in
\* the room list, and with exactly one room leaves the spawn list empty.
C15_GenerateCompletes ==
    /\ gpc # "raised"
    /\ \A w \in DefaultMinSize .. DefaultMaxSize :
         ~randint_raises(1, DefaultMapSize - w - 2)
    /\ gpc = "done" =>
         /\ Len(rooms) >= 1
         /\ Len(rooms) = 1 => last.enemy_spawns = <<>>
         /\ \A i \in 1 .. Len(last.enemy_spawns) :
              \E k \in 2 .. Len(rooms) : last.enemy_spawns[i][2] \in room_tiles(rooms[k])

\* every attempt after the first one met the first room: one room, no spawn
C15_Witness ==
    /\ gpc = "done"
    /\ attempts = MaxRooms * 2
    /\ Len(rooms) = 1
    /\ rooms[1] # Room(1, 1, MapWidth \div 2, MapHeight \div 2)
    /\ last.enemy_spawns = <<>>

\* C16: in the map generate returns the tile at stairs_position is a stairs
\* tile, whatever the number of rooms.
C16_StairsTile ==
    gpc = "done" => get_tile(tiles, stairs_position) = TILE_STAIRS

----------------------------------------------------------------------------
(* SpecReveal: reveal_around on a map whose visible / revealed sets are     *)
(* those left by an earlier reveal (or none), followed by the repetition    *)
(* of the same call, as main_loop does after Player.move                    *)
(* (player.py:203, main.py:442).                                            *)
RevealPreStates ==
    {<<{}, {}>>} \cup
    {<<reveal_lit(p, r), reveal_lit(p, r)>> : p \in Coords, r \in 0 .. MaxRadius}

RevealAround(p, radius) ==
    /\ gpc = "idle"
    /\ last.op = "none"
    /\ visible' = reveal_around_visible(visible, p, radius)
    /\ revealed' = reveal_around_revealed(revealed, p, radius)
    /\ last' = [op |-> "reveal_around", p |-> p, r |-> radius,
                visBefore |-> visible, revBefore |-> revealed]
    /\ UNCHANGED <<tiles, rooms, start_position, stairs_position, attempts, gpc>>
    /\ UNCHANGED nonMapVars

\* the same call once more, with the point and radius of the call before
RevealRepeat ==
    /\ gpc = "idle"
    /\ last.op = "reveal_around"
    /\ visible' = reveal_around_visible(visible, last.p, last.r)
    /\ revealed' = reveal_around_revealed(revealed, last.p, last.r)
    /\ last' = [op |-> "reveal_repeat", p |-> last.p, r |-> last.r,
                visBefore |-> visible, revBefore |-> revealed]
    /\ UNCHANGED <<tiles, rooms, start_position, stairs_position, attempts, gpc>>
    /\ UNCHANGED nonMapVars

InitReveal ==
    /\ tiles = AllWalls
    /\ rooms = <<>>
    /\ start_position = <<1, 1>>
    /\ stairs_position = <<MapWidth - 2, MapHeight - 2>>
    /\ \E pre \in RevealPreStates : visible = pre[1] /\ revealed = pre[2]
    /\ attempts = 0
    /\ gpc = "idle"
    /\ IdleAgents
    /\ last = NoLast

NextReveal ==
    \/ \E p \in Coords, radius \in 0 .. MaxRadius : RevealAround(p, radius)
    \/ RevealRepeat

SpecReveal == InitReveal /\ [][NextReveal]_vars

\* C8: reveal_around leaves visible = the in-bounds coordinates within Manhattan
\* distance r of p, whatever was visible before, and the same call repeated
\* leaves visible and revealed as the first call left them.
C8_IdempotentReveal ==
    /\ last.op \in {"reveal_around", "reveal_repeat"} =>
          visible = {c \in Coords : Manhattan(last.p, c) <= last.r}
    /\ last.op = "reveal_repeat" =>
          visible = last.visBefore /\ revealed = last.revBefore

\* a repeated call whose disc is clipped by the map edge, on a map where
\* something else had been revealed before
C8_Witness ==
    /\ last.op = "reveal_repeat"
    /\ last.r >= 1
    /\ Cardinality(visible) = 3
    /\ revealed # visible

----------------------------------------------------------------------------
(* SpecStatus: apply_status and the per-turn status tick of one enemy and   *)
(* of the player, in any order.                                             *)
EnemyApplyStatus(status, duration) ==
    /\ ops < MaxApply
    /\ enemies' = [enemies EXCEPT ![1] = enemy_apply_status(enemies[1], status, duration)]
    /\ ops' = ops + 1
    /\ last' = [op |-> "enemy_apply", kind |-> status, d |-> duration,
                before |-> enemies[1].status_effects]
    /\ UNCHANGED <<player, mapVars, ctlVars>>

EnemyTick ==
    /\ LET r == enemy_tick_statuses(enemies[1]) IN
         /\ enemies' = [enemies EXCEPT ![1] = r.e]
         /\ last' = [op |-> "enemy_tick", before |-> enemies[1], msg |-> r.msg]
    /\ UNCHANGED <<player, ops, mapVars, ctlVars>>

PlayerApplyStatus(status, duration) ==
    /\ ops < MaxApply
    /\ player' = player_apply_status(player, status, duration)
    /\ ops' = ops + 1
    /\ last' = [op |-> "player_apply", kind |-> status, d |-> duration,
                before |-> player.status_effects]
    /\ UNCHANGED <<enemies, mapVars, ctlVars>>

PlayerTick ==
    /\ player' = player_tick_statuses(player)
    /\ last' = [op |-> "player_tick", before |-> player]
    /\ UNCHANGED <<enemies, ops, mapVars, ctlVars>>

InitStatus ==
    /\ tiles = AllWalls
    /\ rooms = <<>>
    /\ start_position = <<1, 1>>
    /\ stairs_position = <<MapWidth - 2, MapHeight - 2>>
    /\ visible = {}
    /\ revealed = {}
    /\ attempts = 0
    /\ gpc = "idle"
    /\ player = default_player
    /\ enemies = <<enemy_factory("Rat", <<2, 1>>)>>
    /\ ops = 0
    /\ combat = IdleCombat
    /\ world = IdleWorld
    /\ runs = IdleRuns
    /\ last = NoLast

NextStatus ==
    \/ \E k \in StatusKinds, d \in -1 .. MaxDur : EnemyApplyStatus(k, d)
    \/ EnemyTick
    \/ \E k \in StatusKinds, d \in -1 .. MaxDur : PlayerApplyStatus(k, d)
    \/ PlayerTick

SpecStatus == InitStatus /\ [][NextStatus]_vars

\* C4: a status tick lowers the duration of every status present with positive
\* duration by exactly 1 and applies its effect, whatever else is in the map.
C4_TickAll ==
    /\ last.op = "enemy_tick" =>
         LET b == last.before
             a == enemies[1]
             on(k) == st_get(b.status_effects, k, 0) > 0
         IN /\ \A k \in StatusKinds :
                 on(k) => st_get(a.status_effects, k, 0) = st_get(b.status_effects, k, 0) - 1
            /\ a.hp = Max2(0, b.hp - (IF on("burn") THEN 3 ELSE 0)
                                   - (IF on("poison") THEN 2 ELSE 0))
            /\ a.aggressive_radius =
                 IF on("fear") THEN Max2(3, b.aggressive_radius - 1) ELSE b.aggressive_radius
    /\ last.op = "player_tick" =>
         LET b == last.before
             on(k) == st_get(b.status_effects, k, 0) > 0
         IN /\ \A k \in StatusKinds :
                 on(k) => st_get(player.status_effects, k, 0) = st_get(b.status_effects, k, 0) - 1
            /\ player.hp = Max2(0, b.hp - (IF on("burn") THEN 2 ELSE 0)
                                        - (IF on("poison") THEN 1 ELSE 0))
            /\ player.sanity = IF on("poison") THEN Max2(0, b.sanity - 1) ELSE b.sanity
            /\ player.stamina = IF on("freeze") THEN Max2(0, b.stamina - 1) ELSE b.stamina
            /\ player.karma = IF on("fear") THEN Max2(-50, b.karma - 1) ELSE b.karma

\* C5: apply_status(kind, d) leaves kind at max(previous, d), changes nothing
\* when d <= 0, and touches no other entry.
C5_MaxMerge ==
    last.op \in {"enemy_apply", "player_apply"} =>
        LET b == last.before
            a == IF last.op = "enemy_apply" THEN enemies[1].status_effects
                 ELSE player.status_effects
        IN IF last.d <= 0
           THEN a = b
           ELSE /\ st_get(a, last.kind, 0) = Max2(st_get(b, last.kind, 0), last.d)
                /\ st_has(a, last.kind)
                /\ \A k \in StatusKinds \ {last.kind} :
                     /\ st_has(a, k) = st_has(b, k)
                     /\ st_get(a, k, 0) = st_get(b, k, 0)
                /\ Len(a) = Cardinality(st_kinds(a))

\* a status re-applied with a shorter duration than the one it has left,
\* next to another status
C5_Witness ==
    /\ last.op \in {"enemy_apply", "player_apply"}
    /\ last.d > 0
    /\ st_get(last.before, last.kind, 0) > last.d
    /\ Len(last.before) >= 2

\* C14: between operations every entry of a player's or an enemy's status map
\* has a remaining duration above 0: a status that reaches 0 in a tick is
\* removed in that tick.
C14_PositiveDurations ==
    /\ \A i \in 1 .. Len(enemies) :
         \A k \in st_kinds(enemies[i].status_effects) :
            st_get(enemies[i].status_effects, k, 0) > 0
    /\ \A k \in st_kinds(player.status_effects) : st_get(player.status_effects, k, 0) > 0

----------------------------------------------------------------------------
(* SpecPath: path_towards as a function of its inputs.  The map is a floor  *)
(* rectangle with a few wall tiles in it; a call draws start, target, the   *)
(* occupied set and the phasing flag.                                       *)
PathRegion == (1 .. 3) \X (1 .. 3)

SubsetsUpTo(S, n) == {T \in SUBSET S : Cardinality(T) <= n}

PathGrid(walls) ==
    [c \in Coords |-> IF c \in PathRegion /\ c \notin walls THEN TILE_FLOOR ELSE TILE_WALL]

PathCall(start, target, occ, allow_walls) ==
    /\ last.op = "none"
    /\ is_walkable(tiles, target)
    /\ Cardinality(occ) + Cardinality({c \in PathRegion : tiles[c] = TILE_WALL}) <= MaxObstacles
    /\ last' = [op |-> "path_towards", start |-> start, target |-> target,
                occupied |-> occ, allow_walls |-> allow_walls,
                result |-> path_towards(Dungeon(tiles), start, target, occ, allow_walls)]
    /\ UNCHANGED <<mapVars, player, enemies, ops, ctlVars>>

InitPath ==
    /\ \E walls \in SubsetsUpTo(PathRegion, MaxObstacles) : tiles = PathGrid(walls)
    /\ rooms = <<>>
    /\ start_position = <<1, 1>>
    /\ stairs_position = <<MapWidth - 2, MapHeight - 2>>
    /\ visible = {}
    /\ revealed = {}
    /\ attempts = 0
    /\ gpc = "idle"
    /\ IdleAgents
    /\ last = NoLast

NextPath ==
    \E start \in PathRegion, target \in PathRegion :
      \E occ \in SubsetsUpTo(PathRegion, MaxObstacles), allow_walls \in BOOLEAN :
        PathCall(start, target, occ, allow_walls)

SpecPath == InitPath /\ [][NextPath]_vars

(* The yardstick: distances to the target through admissible tiles, by      *)
(* growing the set of tiles within k steps of the target.                   *)
PathAdmissible(d, target, occupied, allow_walls) ==
    {c \in (0 .. d.width - 1) \X (0 .. d.height - 1) :
        /\ (allow_walls \/ d.tiles[c] # TILE_WALL)
        /\ (c \notin occupied \/ c = target)}

Adjacent(p, q) == Manhattan(p, q) = 1

\* the distance to the target of every admissible tile that has one, by layers:
\* dm maps the tiles seen so far, frontier is the layer at distance k
RECURSIVE PathLayers(_, _, _, _)
PathLayers(adm, dm, frontier, k) ==
    IF frontier = {}
    THEN dm
    ELSE LET dm2 == dm @@ [c \in frontier |-> k]
             next == {c \in adm \ DOMAIN dm2 : \E b \in frontier : Adjacent(b, c)}
         IN PathLayers(adm, dm2, next, k + 1)

PathDistMap(adm, target) ==
    PathLayers(adm, <<>>, IF target \in adm THEN {target} ELSE {}, 0)

\* the first hops of the shortest admissible paths from start to target
ShortestHops(d, start, target, occupied, allow_walls) ==
    LET adm == PathAdmissible(d, target, occupied, allow_walls)
        dm == PathDistMap(adm, target)
        live == {k \in 1 .. 4 : neighbours(start)[k] \in DOMAIN dm}
    IN {k \in live : \A j \in live : dm[neighbours(start)[k]] <= dm[neighbours(start)[j]]}

\* the step from (2,2) towards (2,5) on an open 10 x 10 floor, nothing occupied
OpenFloorStep ==
    path_towards([width |-> 10, height |-> 10,
                  tiles |-> [c \in (0 .. 9) \X (0 .. 9) |-> TILE_FLOOR]],
                 <<2, 2>>, <<2, 5>>, {}, FALSE)

\* C9: for start # target a step returned by path_towards is the first hop of
\* a shortest admissible path, and of those hops the first in the neighbour
\* order (+x, -x, +y, -y); on an open 10 x 10 floor (2,2) -> (2,5) gives (2,3).
C9_FirstHop ==
    /\ (last.op = "path_towards" /\ last.start # last.target /\ last.result # NoStep) =>
          LET hops == ShortestHops(Dungeon(tiles), last.start, last.target,
                                   last.occupied, last.allow_walls)
          IN /\ hops # {}
             /\ last.result = neighbours(last.start)[CHOOSE k \in hops : \A j \in hops : k <= j]
    /\ OpenFloorStep = <<2, 3>>

\* two equally short ways round a blocked tile: the step is the first of them
\* in the neighbour order
C9_Witness ==
    /\ last.op = "path_towards"
    /\ last.result # NoStep
    /\ Manhattan(last.start, last.target) >= 2
    /\ ~last.allow_walls
    /\ Cardinality(ShortestHops(Dungeon(tiles), last.start, last.target,
                                last.occupied, last.allow_walls)) >= 2
    /\ last.result = neighbours(last.start)[2]

\* start and target are joined by a chain of admissible tiles: some neighbour
\* of start has a distance to the target through admissible tiles
PathConnected(d, start, target, occupied, allow_walls) ==
    LET dm == PathDistMap(PathAdmissible(d, target, occupied, allow_walls), target)
    IN \E k \in 1 .. 4 : neighbours(start)[k] \in DOMAIN dm

\* C11: path_towards returns start when start = target, and for start # target
\* it returns none exactly when no chain of admissible tiles joins start to
\* target.
C11_NoneIffUnreachable ==
    last.op = "path_towards" =>
       /\ last.start = last.target => last.result = last.start
       /\ last.start # last.target =>
            (last.result = NoStep <=>
               ~PathConnected(Dungeon(tiles), last.start, last.target,
                              last.occupied, last.allow_walls))

\* an agent boxed in: every neighbour of start is a wall or occupied, and the
\* call returns none
C11_Witness ==
    /\ last.op = "path_towards"
    /\ last.start # last.target
    /\ ~last.allow_walls
    /\ \E k \in 1 .. 4 : neighbours(last.start)[k] \in last.occupied
    /\ \A k \in 1 .. 4 : \/ neighbours(last.start)[k] \in last.occupied
                          \/ ~is_walkable(tiles, neighbours(last.start)[k])
    /\ last.result = NoStep

\* C12: a step returned by path_towards for start # target is in bounds, next
\* to start, not occupied unless it is the target, and walkable unless
\* allow_walls is set.
C12_StepAdmissible ==
    (last.op = "path_towards" /\ last.start # last.target /\ last.result # NoStep) =>
       /\ in_bounds(last.result)
       /\ Adjacent(last.start, last.result)
       /\ (last.result \in last.occupied => last.result = last.target)
       /\ (~last.allow_walls => is_walkable(tiles, last.result))

\* with phasing the step is a wall tile, in bounds and not occupied
C12_Witness ==
    /\ last.op = "path_towards"
    /\ last.start # last.target
    /\ last.allow_walls
    /\ last.result # NoStep
    /\ get_tile(tiles, last.result) = TILE_WALL
    /\ last.occupied # {}

----------------------------------------------------------------------------
(* combat_loop (main.py:220-302).  One round is two steps: the player's     *)
(* choice up to the break test of line 268, then the enemy's riposte and    *)
(* the loop test.  The settlement of lines 286-302 is part of the step that *)
(* leaves the loop.  combat.pc is "choice" (waiting at input()), "riposte"  *)
(* or "returned".                                                           *)
MaxRounds == 2

CritRolls == {5, 60}          \* rng.randint(1, 100)
PlayerSpreads == {0, 4}       \* rng.randint(0, 4)
EnemySpreads == {-1, 3}       \* rng.randint(-1, 3)
BlockBonuses == {2, 4}        \* rng.randint(2, 4)
CritDraws == {2, 60}          \* rng.random(), in hundredths
ProcDraws == {20, 60}
FleeDraws == {20, 45, 60}
LootDraws == {20, 99}
ItemInputs == {"", "Bandage", "Lantern"}

\* the locals of combat_loop on entry against roster entry idx
combat_enter(p, e, idx) ==
    [pc |-> IF is_alive(e) /\ player_is_alive(p) THEN "choice" ELSE "returned",
     idx |-> idx, defending |-> FALSE, rounds |-> 0, fled |-> FALSE,
     settled |-> FALSE, loot |-> <<>>, dropped |-> <<>>,
     entry |-> [hp |-> p.hp, ehp |-> e.hp, xp |-> p.xp, level |-> p.level,
                items |-> p.inventory.items]]

\* lines 290-299: the loot goes to the inventory, or to the ground when
\* add_item refuses it
RECURSIVE collect_loot(_, _, _)
collect_loot(p, loot, i) ==
    IF i > Len(loot) THEN [p |-> p, dropped |-> <<>>]
    ELSE LET r == add_item(p.inventory, loot[i], 1)
             later == collect_loot([p EXCEPT !.inventory = r.inv], loot, i + 1)
         IN IF r.ok THEN later
            ELSE [p |-> later.p, dropped |-> <<loot[i]>> \o later.dropped]

\* lines 286-302 for a defeated enemy
settle(p, e, draws) ==
    LET loot == roll_loot(e, draws)
        r == collect_loot(gain_xp(p, e.xp_reward), loot, 1)
    IN [p |-> r.p, loot |-> loot, dropped |-> r.dropped]

\* the end of the player's half of a round: the break test of line 268 and,
\* when the enemy is down, the settlement
CombatAfterChoice(p1, e1, defending, info) ==
    IF ~is_alive(e1)
    THEN \E draws \in [1 .. Len(e1.drop_table) -> LootDraws] :
           LET s == settle(p1, e1, draws) IN
             /\ player' = s.p
             /\ enemies' = [enemies EXCEPT ![combat.idx] = e1]
             /\ combat' = [combat EXCEPT !.pc = "returned", !.settled = TRUE,
                                         !.loot = s.loot, !.dropped = s.dropped,
                                         !.defending = defending]
             /\ last' = info @@ [before |-> [hp |-> player.hp, ehp |-> enemies[combat.idx].hp,
                                             player |-> player]]
    ELSE /\ player' = p1
         /\ enemies' = [enemies EXCEPT ![combat.idx] = e1]
         /\ combat' = [combat EXCEPT !.pc = "riposte", !.defending = defending]
         /\ last' = info @@ [before |-> [hp |-> player.hp, ehp |-> enemies[combat.idx].hp,
                                         player |-> player]]

\* choice "1", or "2" with a ranged weapon equipped
CombatStrike(choice, roll, spread, u_proc) ==
    /\ combat.pc = "choice"
    /\ combat.rounds < MaxRounds
    /\ choice = "2" => player.ranged_weapon # NoItem
    /\ LET kind == IF choice = "1" THEN "melee" ELSE "ranged"
           weapon == IF choice = "1" THEN player.melee_weapon ELSE player.ranged_weapon
           a == player_attack(player, enemies[combat.idx], weapon, roll, spread, u_proc)
           p1 == spend_stamina(degrade_equipment(player, kind),
                               IF choice = "1" THEN 3 ELSE 4)
       IN CombatAfterChoice(p1, a.e, combat.defending,
              [op |-> "combat_strike", choice |-> choice, damage |-> a.damage,
               dealt |-> a.dealt])
    /\ UNCHANGED <<mapVars, ops, world, runs>>

\* a variant of CombatDefend that does not raise the defending flag
CombatDefend_NoGuard ==
    /\ combat.pc = "choice"
    /\ combat.rounds < MaxRounds
    /\ CombatAfterChoice(player, enemies[combat.idx], FALSE,
           [op |-> "combat_defend", choice |-> "3"])
    /\ UNCHANGED <<mapVars, ops, world, runs>>

\* choice "3" (main.py:250-252)
CombatDefend ==
    /\ combat.pc = "choice"
    /\ combat.rounds < MaxRounds
    /\ CombatAfterChoice(player, enemies[combat.idx], TRUE,
           [op |-> "combat_defend", choice |-> "3"])
    /\ UNCHANGED <<mapVars, ops, world, runs>>

\* choice "4": item is the line typed at the prompt, blank to cancel
CombatItem(item) ==
    /\ combat.pc = "choice"
    /\ combat.rounds < MaxRounds
    /\ CombatAfterChoice(IF item # "" THEN use_item(player, item) ELSE player,
           enemies[combat.idx], combat.defending,
           [op |-> "combat_item", choice |-> "4", item |-> item])
    /\ UNCHANGED <<mapVars, ops, world, runs>>

\* choice "5": u is the draw of rng.random()
CombatFlee(u) ==
    /\ combat.pc = "choice"
    /\ combat.rounds < MaxRounds
    /\ IF flee_succeeds(u)
       THEN /\ combat' = [combat EXCEPT !.pc = "returned", !.fled = TRUE]
            /\ last' = [op |-> "combat_flee", choice |-> "5", u |-> u,
                        before |-> [hp |-> player.hp, ehp |-> enemies[combat.idx].hp]]
            /\ UNCHANGED <<player, enemies>>
       ELSE CombatAfterChoice(player, enemies[combat.idx], combat.defending,
                [op |-> "combat_flee", choice |-> "5", u |-> u])
    /\ UNCHANGED <<mapVars, ops, world, runs>>

\* any other input, and "2" without a ranged weapon
CombatHesitate(choice) ==
    /\ combat.pc = "choice"
    /\ combat.rounds < MaxRounds
    /\ choice = "2" => player.ranged_weapon = NoItem
    /\ CombatAfterChoice(player, enemies[combat.idx], combat.defending,
           [op |-> "combat_hesitate", choice |-> choice])
    /\ UNCHANGED <<mapVars, ops, world, runs>>

\* lines 270-285 and the loop test of line 226
CombatRiposte(u_crit, spread, u_inflict, pick, block_roll, block_bonus) ==
    /\ combat.pc = "riposte"
    /\ LET e == enemies[combat.idx]
           a == attack_damage(e, u_crit, spread, u_inflict, pick)
           blocked == block_roll <= armor_block_chance(player)
           mitigation == player_defense(player) + (IF combat.defending THEN 3 ELSE 0)
                           + (IF blocked THEN block_bonus ELSE 0)
           damage == Max2(1, a.base - mitigation)
           p1 == degrade_armor([player EXCEPT !.hp = Max2(0, player.hp - damage)])
           p2 == IF a.inflicted # NoStep
                 THEN player_apply_status(p1, a.inflicted[1], a.inflicted[2])
                 ELSE p1
       IN /\ player' = p2
          /\ combat' = [combat EXCEPT
                          !.pc = IF is_alive(e) /\ player_is_alive(p2) THEN "choice"
                                 ELSE "returned",
                          !.defending = FALSE, !.rounds = @ + 1]
          /\ last' = [op |-> "combat_riposte", base |-> a.base, damage |-> damage,
                      blocked |-> blocked, inflicted |-> a.inflicted,
                      defending |-> combat.defending,
                      after_flee |-> last.op = "combat_flee",
                      round |-> IF last.op = "combat_flee"
                                THEN [hp |-> last.before.hp, ehp |-> last.before.ehp,
                                      status_effects |-> last.before.player.status_effects]
                                ELSE [hp |-> 0, ehp |-> 0, status_effects |-> <<>>],
                      before |-> [hp |-> player.hp, ehp |-> e.hp,
                                  armor |-> player.armor,
                                  armor_durability |-> player.armor_durability]]
    /\ UNCHANGED <<enemies, mapVars, ops, world, runs>>

CombatStep ==
    \/ \E choice \in {"1", "2"}, roll \in CritRolls, spread \in PlayerSpreads,
          u_proc \in ProcDraws : CombatStrike(choice, roll, spread, u_proc)
    \/ CombatDefend
    \/ \E item \in ItemInputs : CombatItem(item)
    \/ \E u \in FleeDraws : CombatFlee(u)
    \/ \E choice \in {"2", "x"} : CombatHesitate(choice)
    \/ \E u_crit \in CritDraws, spread \in EnemySpreads, u_inflict \in ProcDraws :
         \E pick \in 1 .. Max2(1, Len(enemies[combat.idx].status_inflictions)) :
           \E block_roll \in CritRolls, block_bonus \in BlockBonuses :
             CombatRiposte(u_crit, spread, u_inflict, pick, block_roll, block_bonus)

\* the players an encounter starts from: a fresh one, a wounded one with a
\* worn dagger and no bow, one in worn hide armor with an Ether Blade
FreshPlayer == default_player

WoundedPlayer ==
    [default_player EXCEPT !.hp = 3, !.melee_durability = 1,
                           !.ranged_weapon = NoItem, !.ranged_durability = 0]

ArmoredPlayer ==
    [default_player EXCEPT !.armor = "Hide Armor", !.armor_durability = 2,
                           !.melee_weapon = "Ether Blade", !.melee_durability = 120,
                           !.inventory.items["Hide Armor"] = 1,
                           !.inventory.items["Ether Blade"] = 1]

\* the player a Ghost's riposte has frozen (main.py:281-283 with the
\* status_inflictions of Ghost)
FrozenPlayer == player_apply_status(default_player, "freeze", 3)

\* the enemy stands on the player's tile: a rat, a Shadow Queen worn down in
\* earlier rounds, or a Ghost
CombatStarts ==
    { <<FreshPlayer, enemy_factory("Rat", <<1, 1>>)>>,
      <<WoundedPlayer, enemy_factory("Rat", <<1, 1>>)>>,
      <<ArmoredPlayer, enemy_factory("Rat", <<1, 1>>)>>,
      <<FreshPlayer, [enemy_factory("Shadow Queen", <<1, 1>>) EXCEPT !.hp = 5]>>,
      <<WoundedPlayer, enemy_factory("Shadow Queen", <<1, 1>>)>>,
      <<ArmoredPlayer, [enemy_factory("Shadow Queen", <<1, 1>>) EXCEPT !.hp = 5]>>,
      <<FrozenPlayer, enemy_factory("Ghost", <<1, 1>>)>> }

InitCombat ==
    /\ tiles = AllWalls
    /\ rooms = <<>>
    /\ start_position = <<1, 1>>
    /\ stairs_position = <<MapWidth - 2, MapHeight - 2>>
    /\ visible = {}
    /\ revealed = {}
    /\ attempts = 0
    /\ gpc = "idle"
    /\ ops = 0
    /\ world = IdleWorld
    /\ runs = IdleRuns
    /\ last = NoLast
    /\ \E c \in CombatStarts :
         /\ player = c[1]
         /\ enemies = <<c[2]>>
         /\ combat = combat_enter(c[1], c[2], 1)

NextCombat == CombatStep

SpecCombat == InitCombat /\ [][NextCombat]_vars

\* C6: every damage amount of a strike (the damage player_attack computes and
\* the damage take_damage returns and subtracts) and of a riposte (the base
\* damage of attack_damage and the damage taken from the player's hp) is at
\* least 1, whatever the attack, defense, mitigation and draws.
C6_DamageFloor ==
    /\ last.op = "combat_strike" =>
          /\ last.damage >= 1
          /\ last.dealt >= 1
          /\ enemies[combat.idx].hp = last.before.ehp - last.dealt
    /\ last.op = "combat_riposte" =>
          /\ last.base >= 1
          /\ last.damage >= 1
          /\ player.hp = Max2(0, last.before.hp - last.damage)

\* a strike weaker than the enemy's defense still costs it 1 hp
C6_Witness ==
    /\ last.op = "combat_strike"
    /\ last.damage < enemies[combat.idx].defense
    /\ last.dealt = 1
    /\ enemies[combat.idx].hp = last.before.ehp - 1

\* a strike of 6 on a rat (defense 0) with 8 hp left
StrikeExample == take_damage([enemy_factory("Rat", <<1, 1>>) EXCEPT !.hp = 8], 6).e.hp

\* C7: an enemy's hp stays within 0 .. max_hp after any strikes: an overkill
\* leaves 0, and a strike of net damage 6 on hp 8 leaves 2.
C7_HpRange ==
    /\ \A i \in 1 .. Len(enemies) : 0 <= enemies[i].hp /\ enemies[i].hp <= enemies[i].max_hp
    /\ StrikeExample = 2

\* the xp a player of this level and xp has gained in all: the thresholds of
\* the levels passed are 25, 40, 55, ...
XpTotal(level, xp) == xp + 25 * (level - 1) + 15 * (((level - 1) * (level - 2)) \div 2)

\* C10: combat_loop returns only with the enemy at hp <= 0, the player not
\* alive, or a flee draw below 0.45; XP and loot are granted exactly when the
\* enemy was defeated; a successful flee leaves both hp as they were.
C10_CombatExit ==
    /\ combat.pc = "returned" =>
          LET e == enemies[combat.idx] IN
            /\ e.hp <= 0 \/ ~player_is_alive(player) \/ combat.fled
            /\ combat.settled <=> e.hp <= 0
            /\ IF e.hp <= 0
               THEN /\ XpTotal(player.level, player.xp)
                         = XpTotal(combat.entry.level, combat.entry.xp) + e.xp_reward
                    /\ \A i \in 1 .. Len(combat.loot) :
                         \/ has_item(player.inventory, combat.loot[i])
                         \/ \E j \in 1 .. Len(combat.dropped) :
                              combat.dropped[j] = combat.loot[i]
               ELSE /\ player.xp = combat.entry.xp
                    /\ player.level = combat.entry.level
                    /\ combat.loot = <<>>
                    /\ \A n \in ItemNames : player.inventory.items[n] <= combat.entry.items[n]
    /\ combat.pc \in {"choice", "riposte", "returned"} /\ combat.fled =>
          combat.pc = "returned" /\ ~combat.settled
    /\ last.op = "combat_flee" =>
          /\ combat.fled <=> last.u < 45
          /\ combat.fled =>
               /\ player.hp = last.before.hp
               /\ enemies[combat.idx].hp = last.before.ehp

\* a flee that succeeds on the draw 0.2 in the second round, after a riposte
\* has hurt the player
C10_Witness ==
    /\ last.op = "combat_flee"
    /\ last.u = 20
    /\ combat.fled
    /\ combat.pc = "returned"
    /\ combat.rounds >= 1
    /\ player.hp < combat.entry.hp
    /\ player.xp = combat.entry.xp

\* C28: a failed flee attempt consumes the round with no damage either way:
\* after that round the player's hp and the enemy's hp are what they were
\* before it, and no status was inflicted in it.
C28_FailedFleeHarmless ==
    (last.op = "combat_riposte" /\ last.after_flee) =>
        /\ player.hp = last.round.hp
        /\ enemies[combat.idx].hp = last.round.ehp
        /\ player.status_effects = last.round.status_effects

\* C29: during an enemy riposte the armor durability decreases, by 1, only
\* when the armor-block roll of that riposte succeeded; a riposte that is not
\* blocked leaves the equipped armor and its durability unchanged.
C29_ArmorWearOnBlock ==
    last.op = "combat_riposte" =>
        /\ player.armor_durability # last.before.armor_durability =>
              /\ last.blocked
              /\ player.armor_durability = last.before.armor_durability - 1
        /\ ~last.blocked =>
              /\ player.armor = last.before.armor
              /\ player.armor_durability = last.before.armor_durability

\* C30: a melee or ranged strike lowers the durability of the weapon used by
\* exactly 1 and leaves the other weapon slot and its durability untouched; a
\* weapon whose durability reaches 0 leaves its slot in the same step, so an
\* equipped melee or ranged weapon always has durability > 0.
C30_WeaponWear ==
    /\ player.melee_weapon # NoItem => player.melee_durability > 0
    /\ player.ranged_weapon # NoItem => player.ranged_durability > 0
    /\ (last.op = "combat_strike" /\ last.choice = "1"
            /\ last.before.player.melee_weapon # NoItem) =>
          LET b == last.before.player
          IN /\ player.melee_durability = b.melee_durability - 1
             /\ player.melee_weapon =
                    IF player.melee_durability = 0 THEN NoItem ELSE b.melee_weapon
             /\ player.ranged_weapon = b.ranged_weapon
             /\ player.ranged_durability = b.ranged_durability
    /\ (last.op = "combat_strike" /\ last.choice = "2") =>
          LET b == last.before.player
          IN /\ b.ranged_weapon # NoItem
             /\ player.ranged_durability = b.ranged_durability - 1
             /\ player.ranged_weapon =
                    IF player.ranged_durability = 0 THEN NoItem ELSE b.ranged_weapon
             /\ player.melee_weapon = b.melee_weapon
             /\ player.melee_durability = b.melee_durability

\* a strike has used up the melee weapon and emptied its slot
C30_Witness ==
    /\ last.op = "combat_strike"
    /\ last.choice = "1"
    /\ last.before.player.melee_weapon # NoItem
    /\ last.before.player.melee_durability = 1
    /\ player.melee_weapon = NoItem
    /\ player.melee_durability = 0

\* C31: the defend bonus of 3 counts in exactly one riposte, the one of the
\* round in which Defend was chosen, and that riposte clears it: a riposte
\* is computed with the bonus if and only if the choice of its round was
\* Defend, and no round starts with the flag still raised.
C31_DefendOneRound ==
    [][combat.pc = "riposte" =>
         /\ combat.defending <=> (last.op = "combat_defend")
         /\ ~combat'.defending
         /\ last'.op = "combat_riposte"
         /\ last'.defending = combat.defending
         /\ \E b \in {0} \cup BlockBonuses :
               last'.damage =
                   Max2(1, last'.base
                             - (player_defense(player)
                                + (IF last.op = "combat_defend" THEN 3 ELSE 0) + b))]_vars

\* a defended riposte whose damage was lowered by the bonus, the flag cleared
C31_Witness ==
    /\ last.op = "combat_riposte"
    /\ last.defending
    /\ ~last.blocked
    /\ last.damage > 1
    /\ last.before.hp - player.hp = last.damage
    /\ ~combat.defending

----------------------------------------------------------------------------
(* Whole encounters: combat_loop from entry to its return.  The round       *)
(* counter starts DuelRounds below the cap of the guards, so an encounter   *)
(* may last DuelRounds rounds, more than the hp and the healing items of    *)
(* these starts can pay for.                                                *)
DuelRounds == 10

\* a player close to death who still carries the default Bandage and Bread
FaintPlayer == [default_player EXCEPT !.hp = 1]

DuelStarts ==
    { <<FaintPlayer, enemy_factory("Rat", <<1, 1>>)>>,
      <<[FaintPlayer EXCEPT !.inventory.items["Bandage"] = 0],
        enemy_factory("Rat", <<1, 1>>)>> }

InitDuel ==
    /\ tiles = AllWalls
    /\ rooms = <<>>
    /\ start_position = <<1, 1>>
    /\ stairs_position = <<MapWidth - 2, MapHeight - 2>>
    /\ visible = {}
    /\ revealed = {}
    /\ attempts = 0
    /\ gpc = "idle"
    /\ ops = 0
    /\ world = IdleWorld
    /\ runs = IdleRuns
    /\ last = NoLast
    /\ \E c \in DuelStarts :
         /\ player = c[1]
         /\ enemies = <<c[2]>>
         /\ combat = [combat_enter(c[1], c[2], 1) EXCEPT !.rounds = MaxRounds - DuelRounds]

\* The draws of a long encounter: no critical hit on either side, the armor
\* bonus at its largest; the spreads, the status rolls, the block roll and
\* the flee roll keep both of their outcomes.
DuelStrike ==
    \E choice \in {"1", "2"}, spread \in PlayerSpreads :
        CombatStrike(choice, 60, spread, 60)

DuelItem == \E item \in ItemInputs : CombatItem(item)

DuelFlee == \E u \in FleeDraws : CombatFlee(u)

DuelHesitate == \E choice \in {"2", "x"} : CombatHesitate(choice)

DuelRiposte ==
    \E spread \in EnemySpreads, u_inflict \in ProcDraws, block_roll \in CritRolls :
      \E pick \in 1 .. Max2(1, Len(enemies[combat.idx].status_inflictions)) :
          CombatRiposte(60, spread, u_inflict, pick, block_roll, 4)

NextDuel ==
    \/ DuelStrike
    \/ CombatDefend
    \/ DuelItem
    \/ DuelFlee
    \/ DuelHesitate
    \/ DuelRiposte

\* the loop never waits at input() for ever (a choice is always typed in the
\* end, and Defend is one the player can always type) and the riposte is
\* straight-line code
SpecDuel ==
    InitDuel /\ [][NextDuel]_vars /\ WF_vars(CombatDefend) /\ WF_vars(DuelRiposte)

\* C32: every encounter eventually returns, with the enemy down, the player
\* down or the player escaped, whatever the choices and the draws: each
\* riposte costs at least 1 hp and the healing items run out.
C32_CombatResolves ==
    <>(/\ combat.pc = "returned"
       /\ \/ combat.fled
          \/ ~is_alive(enemies[combat.idx])
          \/ ~player_is_alive(player))

\* an encounter that lasted longer than the player's hp at entry could pay
\* for, thanks to a Bandage, and ended with the player down
C32_Witness ==
    /\ combat.pc = "returned"
    /\ ~player_is_alive(player)
    /\ combat.rounds - (MaxRounds - DuelRounds) > combat.entry.hp
    /\ combat.entry.items["Bandage"] = 1
    /\ player.inventory.items["Bandage"] = 0

\* C23: a turn taken by an agent while freeze is present with positive
\* duration performs no movement and no attack: a frozen enemy of any kind
\* keeps its position and leaves the occupancy set as it was, a frozen
\* player's strike does not happen, and the freeze duration drops by 1.
C23_FrozenNoAction ==
    /\ (last.op = "enemy_turn" /\ st_get(last.before.status_effects, "freeze", 0) > 0) =>
          /\ enemies[1].position = last.before.position
          /\ last.occupied = last.occ_before
          /\ st_get(enemies[1].status_effects, "freeze", 0)
               = st_get(last.before.status_effects, "freeze", 0) - 1
    /\ (last.op = "combat_strike"
          /\ st_get(last.before.player.status_effects, "freeze", 0) > 0) =>
          /\ enemies[combat.idx].hp = last.before.ehp
          /\ st_get(player.status_effects, "freeze", 0)
               = st_get(last.before.player.status_effects, "freeze", 0) - 1

----------------------------------------------------------------------------
(* A world turn: the command branches of main_loop that end in              *)
(* update_enemies (main.py:445-466), attempt_move (main.py:111-148) and     *)
(* update_enemies (main.py:183-197), one enemy per step.  The drawing calls *)
(* of main_loop change no state of the game and are left out.  world.pc is  *)
(* "command" (waiting at input()), "move_combat" (combat_loop called by     *)
(* attempt_move), "enemies" (inside the loop of update_enemies),            *)
(* "contact_combat" (combat_loop called by update_enemies), "over" (the     *)
(* loop of main_loop has ended) or "crashed" (an exception left main_loop). *)
MaxTurns == 2

\* two rooms side by side, of the smallest size generate draws, joined by
\* the corridor generate carves
WorldRooms ==
    << Room(1, 1, 1 + MinSize, 1 + MinSize),
       Room(2 + MinSize, 1, 2 + 2 * MinSize, 1 + MinSize) >>

WorldTiles ==
    gen_tiles_final(
        create_corridor(create_room(create_room(AllWalls, WorldRooms[1]), WorldRooms[2]),
                        center(WorldRooms[1]), center(WorldRooms[2]), TRUE),
        WorldRooms)

\* update_enemies, line 184
occupied_of(es) == {es[i].position : i \in {j \in 1 .. Len(es) : is_alive(es[j])}}

\* lines 197 and 122: the living enemies, in roster order
living(es) == SelectSeq(es, is_alive)

\* variant: the loop of update_enemies starts at the second enemy
begin_update_SkipFirst(cmd) ==
    [pc |-> "enemies", idx |-> 2, occupied |-> {}, turns |-> 0, cmd |-> cmd,
     steps |-> <<>>, roster |-> 0]

\* the call of update_enemies by a command branch: the loop of line 185
\* starts at the first enemy.  steps is the record of the iterations of this
\* turn and roster the length of state.enemies the loop runs over.
begin_update(cmd) ==
    [pc |-> "enemies", idx |-> 1, occupied |-> {}, turns |-> 0, cmd |-> cmd,
     steps |-> <<>>, roster |-> 0]

\* "r" and "z": rest or sleep, the random event, then update_enemies
WorldRest(cmd, ev) ==
    /\ world.pc = "command"
    /\ world.turns < MaxTurns
    /\ player' = trigger_random_event(IF cmd = "r" THEN rest(player) ELSE sleep_turn(player), ev)
    /\ world' = [begin_update(cmd) EXCEPT !.occupied = occupied_of(enemies),
                                           !.turns = world.turns,
                                           !.roster = Len(enemies)]
    /\ last' = [op |-> "command", cmd |-> cmd]
    /\ UNCHANGED <<enemies, combat, ops, mapVars, runs>>

\* a variant of WorldMove whose player steps onto the enemy's tile as the
\* combat starts
WorldMove_Advance(dx, dy) ==
    /\ world.pc = "command"
    /\ world.turns < MaxTurns
    /\ LET target == <<player.position[1] + dx, player.position[2] + dy>>
           foes == {i \in 1 .. Len(enemies) :
                      enemies[i].position = target /\ is_alive(enemies[i])}
       IN IF foes # {}
          THEN LET i == CHOOSE k \in foes : \A j \in foes : k <= j IN
               /\ combat' = combat_enter(player, enemies[i], i)
               /\ world' = [world EXCEPT !.pc = "move_combat", !.cmd = "move",
                                         !.steps = <<>>, !.roster = 0]
               /\ player' = [player EXCEPT !.position = target]
               /\ UNCHANGED <<visible, revealed>>
          ELSE IF ~in_bounds(target) \/ ~is_walkable(tiles, target)
          THEN /\ world' = [world EXCEPT !.pc = "crashed", !.cmd = "move",
                                         !.steps = <<>>, !.roster = 0]
               /\ UNCHANGED <<player, combat, visible, revealed>>
          ELSE /\ player' = move_to(player, target)
               /\ visible' = reveal_around_visible(visible, target,
                                 vision_radius(move_to(player, target)))
               /\ revealed' = reveal_around_revealed(revealed, target,
                                  vision_radius(move_to(player, target)))
               /\ world' = [world EXCEPT !.pc = "crashed", !.cmd = "move",
                                         !.steps = <<>>, !.roster = 0]
               /\ UNCHANGED combat
    /\ last' = [op |-> "command", cmd |-> "move", from |-> player.position,
                target |-> <<player.position[1] + dx, player.position[2] + dy>>]
    /\ UNCHANGED <<enemies, ops, tiles, rooms, start_position, stairs_position,
                   attempts, gpc, runs>>

\* "w", "a", "s", "d": attempt_move.  Without an enemy on the target tile the
\* call raises AttributeError (DungeonMap has no discover_hidden, biome or
\* hazards), after Player.move when the tile is walkable.
WorldMove(dx, dy) ==
    /\ world.pc = "command"
    /\ world.turns < MaxTurns
    /\ LET target == <<player.position[1] + dx, player.position[2] + dy>>
           foes == {i \in 1 .. Len(enemies) :
                      enemies[i].position = target /\ is_alive(enemies[i])}
       IN IF foes # {}
          THEN LET i == CHOOSE k \in foes : \A j \in foes : k <= j IN
               /\ combat' = combat_enter(player, enemies[i], i)
               /\ world' = [world EXCEPT !.pc = "move_combat", !.cmd = "move",
                                         !.steps = <<>>, !.roster = 0]
               /\ UNCHANGED <<player, visible, revealed>>
          ELSE IF ~in_bounds(target) \/ ~is_walkable(tiles, target)
          THEN /\ world' = [world EXCEPT !.pc = "crashed", !.cmd = "move",
                                         !.steps = <<>>, !.roster = 0]
               /\ UNCHANGED <<player, combat, visible, revealed>>
          ELSE /\ player' = move_to(player, target)
               /\ visible' = reveal_around_visible(visible, target,
                                 vision_radius(move_to(player, target)))
               /\ revealed' = reveal_around_revealed(revealed, target,
                                  vision_radius(move_to(player, target)))
               /\ world' = [world EXCEPT !.pc = "crashed", !.cmd = "move",
                                         !.steps = <<>>, !.roster = 0]
               /\ UNCHANGED combat
    /\ last' = [op |-> "command", cmd |-> "move", from |-> player.position,
                target |-> <<player.position[1] + dx, player.position[2] + dy>>]
    /\ UNCHANGED <<enemies, ops, tiles, rooms, start_position, stairs_position,
                   attempts, gpc, runs>>

\* attempt_move after its combat_loop has returned (lines 117-123), then the
\* start of update_enemies
WorldMoveCombatReturn ==
    /\ world.pc = "move_combat"
    /\ combat.pc = "returned"
    /\ LET es == IF player_is_alive(player) THEN living(enemies) ELSE enemies IN
         /\ enemies' = es
         /\ world' = [world EXCEPT !.pc = "enemies", !.idx = 1,
                                   !.occupied = occupied_of(es),
                                   !.roster = Len(es)]
    /\ combat' = IdleCombat
    /\ last' = [op |-> "move_combat_return"]
    /\ UNCHANGED <<player, ops, mapVars, runs>>

\* one iteration of the loop of update_enemies (lines 185-192), up to the
\* call of combat_loop
WorldEnemyStep(u_flank, order, u_retreat) ==
    /\ world.pc = "enemies"
    /\ world.idx <= Len(enemies)
    /\ LET e == enemies[world.idx] IN
       IF ~is_alive(e)
       THEN /\ world' = [world EXCEPT !.idx = @ + 1,
                                      !.steps = Append(@, [idx |-> world.idx, alive |-> FALSE,
                                                           acted |-> FALSE])]
            /\ last' = [op |-> "enemy_skip", idx |-> world.idx]
            /\ UNCHANGED <<enemies, combat>>
       ELSE LET r == take_turn(e, Dungeon(tiles), player.position, world.occupied,
                               u_flank, order, u_retreat)
                contact == r.e.position = player.position /\ is_alive(r.e)
            IN /\ enemies' = [enemies EXCEPT ![world.idx] = r.e]
               /\ world' = [world EXCEPT !.occupied = r.occupied,
                                         !.pc = IF contact THEN "contact_combat" ELSE @,
                                         !.idx = IF contact THEN @ ELSE @ + 1,
                                         !.steps = Append(@, [idx |-> world.idx, alive |-> TRUE,
                                                              acted |-> TRUE])]
               /\ combat' = IF contact THEN combat_enter(player, r.e, world.idx) ELSE combat
               /\ last' = [op |-> "enemy_step", idx |-> world.idx, before |-> e,
                           occupied |-> world.occupied, msg |-> r.msg, contact |-> contact,
                           combat_before |-> combat.pc, cmd |-> world.cmd]
    /\ UNCHANGED <<player, ops, mapVars, runs>>

\* lines 331-351 of main.py, check_game_over, read at the end of a turn
turn_end_pc == IF player.hp <= 0 \/ player.sanity <= 0 THEN "over" ELSE "command"

\* a variant of WorldContactReturn that goes on with the roster after the
\* player's death
WorldContactReturn_GoOn ==
    /\ world.pc = "contact_combat"
    /\ combat.pc = "returned"
    /\ world' = [world EXCEPT !.pc = "enemies", !.idx = @ + 1]
    /\ last' = [op |-> "contact_return", fled |-> combat.fled]
    /\ combat' = IdleCombat
    /\ UNCHANGED <<player, enemies, ops, mapVars, runs>>

\* update_enemies after its combat_loop has returned (lines 193-196): with
\* the player down it returns at once, the roster unfiltered
WorldContactReturn ==
    /\ world.pc = "contact_combat"
    /\ combat.pc = "returned"
    /\ IF ~player_is_alive(player)
       THEN /\ world' = [world EXCEPT !.pc = turn_end_pc, !.turns = @ + 1]
            /\ last' = [op |-> "turn_end", early |-> TRUE, fled |-> combat.fled]
       ELSE /\ world' = [world EXCEPT !.pc = "enemies", !.idx = @ + 1]
            /\ last' = [op |-> "contact_return", fled |-> combat.fled]
    /\ combat' = IdleCombat
    /\ UNCHANGED <<player, enemies, ops, mapVars, runs>>

\* line 197, then stairs_check (only after a move; the player is asked only
\* on the stairs tile) and check_game_over
WorldEndUpdate ==
    /\ world.pc = "enemies"
    /\ world.idx > Len(enemies)
    /\ enemies' = living(enemies)
    /\ world' = [world EXCEPT
                   !.pc = IF world.cmd = "move" /\ player.position = stairs_position
                          THEN "stairs" ELSE turn_end_pc,
                   !.turns = @ + 1]
    /\ last' = [op |-> "turn_end", early |-> FALSE, fled |-> FALSE]
    /\ UNCHANGED <<player, combat, ops, mapVars, runs>>

\* trait_selection (main.py:64-78): the trait of an unlisted answer, and one
\* more
WorldTraits == {"Mind Anchor", "Vital Bloom"}

\* the deltas of "w", "s", "a", "d" (main.py:446)
MoveDeltas == { <<0, -1>>, <<0, 1>>, <<-1, 0>>, <<1, 0>> }

\* two of the orders rng.shuffle may leave the flank options in
FlankOrders == { <<1, 2, 3, 4>>, <<3, 4, 1, 2>> }

\* create_new_game (main.py:81-93) and next_floor (main.py:312-322): the
\* player on the start tile and the roster built from the spawn records
InitWorld ==
    /\ tiles = WorldTiles
    /\ rooms = WorldRooms
    /\ start_position = gen_start_of(WorldRooms)
    /\ stairs_position = gen_stairs_of(WorldRooms)
    /\ attempts = MaxRooms * 2
    /\ gpc = "done"
    /\ ops = 0
    /\ combat = IdleCombat
    /\ world = [pc |-> "command", idx |-> 1, occupied |-> {}, turns |-> 0, cmd |-> "none",
                steps |-> <<>>, roster |-> 0]
    /\ runs = IdleRuns
    /\ last = NoLast
    /\ \E trait \in WorldTraits :
         LET p == [apply_trait(default_player, trait) EXCEPT
                     !.position = gen_start_of(WorldRooms)]
         IN /\ player = p
            /\ visible = reveal_lit(p.position, vision_radius(p))
            /\ revealed = reveal_lit(p.position, GenRevealRadius)
                            \cup reveal_lit(p.position, vision_radius(p))
    /\ \E spawns \in populate_enemy_spawns(WorldRooms) :
         enemies = [i \in 1 .. Len(spawns) |-> enemy_factory(spawns[i][1], spawns[i][2])]

NextWorld ==
    \/ \E cmd \in {"r", "z"} : WorldRest(cmd, "none")
    \/ \E d \in MoveDeltas : WorldMove(d[1], d[2])
    \/ WorldMoveCombatReturn
    \/ \E u_flank \in {20, 60}, order \in FlankOrders, u_retreat \in {20, 60} :
         WorldEnemyStep(u_flank, order, u_retreat)
    \/ WorldContactReturn
    \/ WorldEndUpdate
    \/ CombatStrike("1", 60, 4, 60)
    \/ CombatDefend
    \/ \E u \in {20, 60} : CombatFlee(u)
    \/ CombatRiposte(60, 3, 60, 1, 60, 2)

SpecWorld == InitWorld /\ [][NextWorld]_vars

\* C3: at the end of every world turn no two living agents (two enemies, or
\* an enemy and the player) stand on the same coordinate.
C3_OccupancyExclusive ==
    last.op = "turn_end" =>
        /\ \A i, j \in 1 .. Len(enemies) :
             (i # j /\ is_alive(enemies[i]) /\ is_alive(enemies[j]))
               => enemies[i].position # enemies[j].position
        /\ \A i \in 1 .. Len(enemies) :
             (is_alive(enemies[i]) /\ player_is_alive(player))
               => enemies[i].position # player.position

\* C19: within one world turn the player's action, with any combat it starts,
\* is completely resolved before the first enemy AI step begins; then every
\* enemy alive when its turn comes takes exactly one AI step, in roster order,
\* and dead enemies take none.
C19_TurnOrder ==
    /\ world.pc \in {"move_combat", "crashed"} => world.steps = <<>>
    /\ last.op = "enemy_step" => last.combat_before = "idle"
    /\ \A k \in 1 .. Len(world.steps) :
         /\ world.steps[k].idx = k
         /\ world.steps[k].acted <=> world.steps[k].alive
    /\ Len(world.steps) <= world.roster
    /\ (last.op = "turn_end" /\ ~last.early) => Len(world.steps) = world.roster

\* a turn begun by an attack: the combat has returned with the enemy alive,
\* then both enemies of the roster have taken their step, the first before
\* the second
C19_Witness ==
    /\ last.op = "turn_end"
    /\ ~last.early
    /\ world.cmd = "move"
    /\ world.roster = 2
    /\ Len(world.steps) = 2
    /\ world.steps[1].acted /\ world.steps[2].acted

\* C38: no two enemy spawn records of a generated map share a coordinate:
\* the enemies create_new_game makes from them start the level on pairwise
\* distinct tiles, none of them on the start coordinate.
C38_DistinctSpawns ==
    last.op = "none" =>
        /\ \A i \in 1 .. Len(enemies) : \A j \in 1 .. Len(enemies) :
              i # j => enemies[i].position # enemies[j].position
        /\ \A i \in 1 .. Len(enemies) : enemies[i].position # start_position

\* C34: a movement command whose target tile holds a living enemy starts
\* combat with an enemy of that tile and leaves the player's position as it
\* was, through the whole combat and its return, whatever the outcome; a
\* movement command that does change the position ends on the target tile,
\* which no living enemy holds.
C34_MoveIntoEnemy ==
    [][/\ (world.pc = "command" /\ last'.op = "command" /\ last'.cmd = "move") =>
            LET foe == \E i \in 1 .. Len(enemies) :
                          is_alive(enemies[i]) /\ enemies[i].position = last'.target
            IN /\ foe =>
                    /\ world'.pc = "move_combat"
                    /\ combat'.pc # "idle"
                    /\ is_alive(enemies[combat'.idx])
                    /\ enemies[combat'.idx].position = last'.target
                    /\ player'.position = player.position
               /\ player'.position # player.position =>
                    /\ ~foe
                    /\ player'.position = last'.target
       /\ world.pc = "move_combat" => player'.position = player.position]_vars

\* a combat started by a movement command has been won, the player still
\* on the tile the command was given from
C34_Witness ==
    /\ world.pc = "move_combat"
    /\ combat.pc = "returned"
    /\ combat.settled
    /\ ~is_alive(enemies[combat.idx])
    /\ player.position # enemies[combat.idx].position

----------------------------------------------------------------------------
(* World turns on a level of three rooms in a row, with the spawn records   *)
(* of its second and third room: the actions are those of a world turn.     *)
\* three rooms that touch, as intersects (map_gen.py:37-38) admits
CrowdRooms ==
    << Room(1, 1, 2, 2), Room(3, 1, 3, 2), Room(4, 1, 5, 2) >>

CrowdTiles ==
    gen_tiles_final(create_room(create_room(create_room(AllWalls, CrowdRooms[1]),
                                            CrowdRooms[2]), CrowdRooms[3]),
                    CrowdRooms)

\* populate_enemy_spawns (map_gen.py:236-245): the records of the second
\* room over two of the enemy types, those of the third on its corners
CrowdSpawns ==
    {a \o b : a \in RoomSpawnsFrom({"Rat", "Mimic"} \X room_tiles(CrowdRooms[2])),
              b \in RoomCornerSpawns(CrowdRooms[3])}

InitCrowd ==
    /\ tiles = CrowdTiles
    /\ rooms = CrowdRooms
    /\ start_position = gen_start_of(CrowdRooms)
    /\ stairs_position = gen_stairs_of(CrowdRooms)
    /\ attempts = MaxRooms * 2
    /\ gpc = "done"
    /\ ops = 0
    /\ combat = IdleCombat
    /\ world = [pc |-> "command", idx |-> 1, occupied |-> {}, turns |-> 0, cmd |-> "none",
                steps |-> <<>>, roster |-> 0]
    /\ runs = IdleRuns
    /\ last = NoLast
    /\ LET p == [apply_trait(default_player, "Mind Anchor") EXCEPT
                   !.position = gen_start_of(CrowdRooms)]
       IN /\ player = p
          /\ visible = reveal_lit(p.position, vision_radius(p))
          /\ revealed = reveal_lit(p.position, GenRevealRadius)
                          \cup reveal_lit(p.position, vision_radius(p))
    /\ \E spawns \in CrowdSpawns :
         enemies = [i \in 1 .. Len(spawns) |-> enemy_factory(spawns[i][1], spawns[i][2])]

SpecCrowd == InitCrowd /\ [][NextWorld]_vars

\* C36: while the enemies are being stepped in a world turn the occupancy
\* set is exactly the set of the positions of the enemies still alive: the
\* tile of an enemy that died during the turn is free for those after it.
C36_OccupancyExact ==
    world.pc \in {"enemies", "contact_combat"} => world.occupied = occupied_of(enemies)

\* the same level entered by a player one blow from death (next_floor,
\* main.py:312-322, keeps the player's hp)
InitSiege ==
    /\ tiles = CrowdTiles
    /\ rooms = CrowdRooms
    /\ start_position = gen_start_of(CrowdRooms)
    /\ stairs_position = gen_stairs_of(CrowdRooms)
    /\ attempts = MaxRooms * 2
    /\ gpc = "done"
    /\ ops = 0
    /\ combat = IdleCombat
    /\ world = [pc |-> "command", idx |-> 1, occupied |-> {}, turns |-> 0, cmd |-> "none",
                steps |-> <<>>, roster |-> 0]
    /\ runs = IdleRuns
    /\ last = NoLast
    /\ LET p == [apply_trait(default_player, "Mind Anchor") EXCEPT
                   !.position = gen_start_of(CrowdRooms), !.hp = 1]
       IN /\ player = p
          /\ visible = reveal_lit(p.position, vision_radius(p))
          /\ revealed = reveal_lit(p.position, GenRevealRadius)
                          \cup reveal_lit(p.position, vision_radius(p))
    /\ \E spawns \in CrowdSpawns :
         enemies = [i \in 1 .. Len(spawns) |-> enemy_factory(spawns[i][1], spawns[i][2])]

SpecSiege == InitSiege /\ [][NextWorld]_vars

\* C35: whenever the AI step of an enemy ends with that enemy alive on the
\* player's coordinate, combat against that enemy is run before the next
\* enemy of the roster takes its step, and when the player dies in it no
\* later enemy takes a step in that update.
C35_ContactCombat ==
    [][/\ (world.pc = "enemies" /\ last'.op = "enemy_step") =>
            ((is_alive(enemies'[world.idx])
                 /\ enemies'[world.idx].position = player.position)
               <=> (/\ world'.pc = "contact_combat"
                    /\ combat'.pc # "idle"
                    /\ combat'.idx = world.idx
                    /\ world'.idx = world.idx))
       /\ world.pc = "contact_combat" =>
            /\ world'.steps = world.steps
            /\ \A i \in 1 .. Len(enemies) : enemies'[i].position = enemies[i].position
            /\ world'.pc = "contact_combat" => combat'.idx = world.idx
            /\ (world'.pc # "contact_combat" /\ ~player_is_alive(player)) =>
                  /\ world'.pc = "over"
                  /\ last'.op = "turn_end"
                  /\ last'.early
       /\ world.pc = "over" => world'.steps = world.steps]_vars

\* the player died fighting the first enemy of a roster of several, and the
\* update ended there
C35_Witness ==
    /\ last.op = "turn_end"
    /\ last.early
    /\ ~player_is_alive(player)
    /\ world.pc = "over"
    /\ Len(world.steps) = world.idx
    /\ world.idx < world.roster
    /\ is_alive(enemies[world.roster])

\* C20: during update_enemies an enemy processed later sees the tile an
\* earlier enemy moved to as occupied and the tile it left as free, so no step
\* moves an enemy onto a tile held by another living enemy: two enemies never
\* swap tiles or come to share one within a turn.
C20_NoStepOntoEnemy ==
    (last.op = "enemy_step" /\ enemies[last.idx].position # last.before.position) =>
        /\ enemies[last.idx].position \in world.occupied
        /\ last.before.position \notin world.occupied
        /\ \A j \in 1 .. Len(enemies) :
             (j # last.idx /\ is_alive(enemies[j]))
                => enemies[j].position # enemies[last.idx].position

----------------------------------------------------------------------------
(* Enemy turns on a level with a wall between its rooms: take_turn of one   *)
(* enemy, called once per world turn by update_enemies (main.py:188) with   *)
(* the occupied set of line 184, the player on one of three tiles.          *)
MaxSteps == 3

\* two rooms of the smallest size in opposite corners, joined by the corridor
\* generate carves
TurnRooms ==
    << Room(1, 1, 1 + MinSize, 1 + MinSize),
       Room(MapWidth - 2 - MinSize, MapHeight - 2 - MinSize, MapWidth - 2, MapHeight - 2) >>

TurnTiles ==
    gen_tiles_final(
        create_corridor(create_room(create_room(AllWalls, TurnRooms[1]), TurnRooms[2]),
                        center(TurnRooms[1]), center(TurnRooms[2]), TRUE),
        TurnRooms)

\* the enemy_types of populate_enemy_spawns (map_gen.py:237)
TurnSpecies == {"Rat", "Skeleton", "Ghost", "Shadowling", "Mimic"}

EnemyTurn(u_flank, order, u_retreat) ==
    /\ ops < MaxSteps
    /\ is_alive(enemies[1])
    /\ enemies[1].position # player.position
    /\ LET r == take_turn(enemies[1], Dungeon(tiles), player.position,
                          occupied_of(enemies), u_flank, order, u_retreat)
       IN /\ enemies' = <<r.e>>
          /\ last' = [op |-> "enemy_turn", before |-> enemies[1],
                      occupied |-> r.occupied, msg |-> r.msg,
                      occ_before |-> occupied_of(enemies),
                      tick |-> enemy_tick_statuses(enemies[1]).msg,
                      view |-> turn_view(enemies[1], Dungeon(tiles), player.position,
                                         occupied_of(enemies), u_flank, order, u_retreat)]
    /\ ops' = ops + 1
    /\ UNCHANGED <<player, combat, world, mapVars, runs>>

\* the statuses an enemy carries when its turns begin: none, one left by
\* apply_status(status, 3) as player_attack calls it (main.py:215-216), or two
TurnAfflictions ==
    {<<>>} \cup {<<k>> : k \in StatusKinds} \cup {<<"burn", "freeze">>, <<"fear", "poison">>}

RECURSIVE afflict(_, _, _)
afflict(e, ks, i) ==
    IF i > Len(ks) THEN e ELSE afflict(enemy_apply_status(e, ks[i], 3), ks, i + 1)

\* the player_pos the turns are given: the start tile, the corridor tile
\* before the second room, and the far corner of that room
TurnTargets ==
    { gen_start_of(TurnRooms),
      <<center(TurnRooms[2])[1], TurnRooms[2].y1 - 1>>,
      <<TurnRooms[2].x2, TurnRooms[2].y2>> }

\* one spawn record in the second room (map_gen.py:238-245), the enemy whole
\* or hurt in an earlier combat, with the statuses it carries; the enemy is
\* not on the player's tile (update_enemies would have called combat_loop)
InitTurn ==
    /\ tiles = TurnTiles
    /\ rooms = TurnRooms
    /\ start_position = gen_start_of(TurnRooms)
    /\ stairs_position = gen_stairs_of(TurnRooms)
    /\ revealed = reveal_lit(gen_start_of(TurnRooms), GenRevealRadius)
    /\ attempts = MaxRooms * 2
    /\ gpc = "done"
    /\ \E target \in TurnTargets :
         /\ player = [default_player EXCEPT !.position = target]
         /\ visible = reveal_lit(target, vision_radius(default_player))
    /\ \E sp \in TurnSpecies, pos \in room_tiles(TurnRooms[2]), hurt \in BOOLEAN,
          ks \in TurnAfflictions :
         /\ pos # player.position
         /\ enemies = << afflict([enemy_factory(sp, pos) EXCEPT !.hp = IF hurt THEN 3 ELSE @],
                                 ks, 1) >>
    /\ ops = 0
    /\ combat = IdleCombat
    /\ world = IdleWorld
    /\ runs = IdleRuns
    /\ last = NoLast

NextTurn ==
    \E u_flank \in {20, 60}, order \in FlankOrders, u_retreat \in {20, 60} :
       EnemyTurn(u_flank, order, u_retreat)

SpecTurn == InitTurn /\ [][NextTurn]_vars

----------------------------------------------------------------------------
(* A pursuit: the player stays on one tile of a level whose corridors bend  *)
(* back, and one aware enemy without statuses, of aggressive personality,   *)
(* takes turn after turn.  The step counter starts ChaseSteps below the cap *)
(* of EnemyTurn, more than the longest way to the player; update_enemies    *)
(* gives the enemy a turn in every world turn, hence the weak fairness.     *)
ChaseSteps == 12

\* the two corridors create_corridor carves from <<1, 1>> to <<5, 3>> and on
\* to <<1, 3>>: a wall lies between the first row and the third
ChaseTiles ==
    create_corridor(create_corridor(AllWalls, <<1, 1>>, <<5, 3>>, TRUE),
                    <<5, 3>>, <<1, 3>>, TRUE)

\* the species of aggressive personality (enemy_ai.py:319, 337, 412)
ChaseSpecies == {"Rat", "Skeleton", "Ether Guardian"}

InitChase ==
    /\ tiles = ChaseTiles
    /\ rooms = <<>>
    /\ start_position = <<1, 1>>
    /\ stairs_position = <<1, 3>>
    /\ revealed = {}
    /\ visible = {}
    /\ attempts = 0
    /\ gpc = "done"
    /\ player = [default_player EXCEPT !.position = <<1, 1>>]
    /\ \E sp \in ChaseSpecies, pos \in Coords :
         LET e == enemy_factory(sp, pos) IN
         /\ is_walkable(ChaseTiles, pos)
         /\ pos # <<1, 1>>
         /\ distance(e, <<1, 1>>) <= e.aggressive_radius
         /\ path_towards(Dungeon(ChaseTiles), pos, <<1, 1>>, {pos}, e.can_phase) # NoStep
         /\ enemies = <<e>>
    /\ ops = MaxSteps - ChaseSteps
    /\ combat = IdleCombat
    /\ world = IdleWorld
    /\ runs = IdleRuns
    /\ last = NoLast

\* a turn of the enemy, as far as the step counter of EnemyTurn shows it
ChaseTick ==
    /\ ops < MaxSteps
    /\ is_alive(enemies[1])
    /\ enemies[1].position # player.position
    /\ ops' = ops + 1

SpecChase == InitChase /\ [][NextTurn]_vars /\ WF_ops(ChaseTick)

\* C39: with the player staying on one tile, a single aware enemy without
\* statuses and of aggressive personality that starts within its aggression
\* radius with an admissible path moves one step along the path in every
\* turn, and in the end steps onto the player's tile, which triggers combat.
C39_PursuitReaches ==
    /\ [](last.op = "enemy_turn" =>
             /\ enemies[1].position # last.before.position
             /\ enemies[1].position =
                    path_towards(Dungeon(tiles), last.before.position, player.position,
                                 last.occ_before, last.before.can_phase))
    /\ <>(enemies[1].position = player.position /\ last.msg = "lunges")

\* C13: after every enemy turn the position of every living enemy, a phasing
\* one included, is in bounds and on a walkable tile.
C13_RestOnWalkable ==
    last.op = "enemy_turn" =>
        \A i \in 1 .. Len(enemies) :
            is_alive(enemies[i]) =>
                in_bounds(enemies[i].position) /\ is_walkable(tiles, enemies[i].position)

\* C24: an enemy's awakened flag turns true only on a turn in which its
\* Manhattan distance to the target is at most 1 and never returns to false;
\* while the flag is false the enemy's turns change neither its position nor
\* the occupancy set, the awakening turn included.
C24_Awakening ==
    last.op = "enemy_turn" =>
        /\ (~last.before.awakened /\ enemies[1].awakened) =>
              Manhattan(last.before.position, player.position) <= 1
        /\ last.before.awakened => enemies[1].awakened
        /\ ~last.before.awakened =>
              /\ enemies[1].position = last.before.position
              /\ last.occupied = last.occ_before

\* a dormant Mimic next to the target wakes without moving
C24_Witness ==
    /\ last.op = "enemy_turn"
    /\ last.before.species = "Mimic"
    /\ ~last.before.awakened
    /\ enemies[1].awakened
    /\ enemies[1].position = last.before.position

\* C25: in an aware enemy's turn that takes no cautious retreat the enemy's
\* position and the occupancy set are left unchanged whenever path_towards
\* returns none, or the returned step is in occupied, or the enemy is an
\* ambusher more than 4 tiles from the target, or the target is farther than
\* the enemy's aggression radius.
C25_NoPursuitFrame ==
    (/\ last.op = "enemy_turn"
     /\ last.view.reached
     /\ ~last.view.retreated
     /\ \/ last.view.next_step = NoStep
        \/ last.view.next_step \in last.view.occupied
        \/ last.view.ambush_far
        \/ last.view.out_of_radius)
    => /\ enemies[1].position = last.before.position
       /\ last.occupied = last.occ_before

\* the 4-neighbours of p a retreat may go to: in bounds, walkable, not in occ
RetreatOptions(p, occ) ==
    {n \in Coords : Manhattan(n, p) = 1 /\ is_walkable(tiles, n) /\ n \notin occ}

\* C26: when a cautious enemy below half of its max_hp retreats, the
\* destination is a 4-neighbour of its position that is in bounds, walkable
\* and not in occupied, and no other such neighbour is farther (Manhattan)
\* from the target; the move takes the old tile out of the occupancy set and
\* puts the new one in, and the turn ends without a pursuit step.
C26_RetreatDestination ==
    (last.op = "enemy_turn" /\ last.msg = "retreats") =>
        LET from == last.before.position
            dest == enemies[1].position
        IN /\ last.before.personality = "cautious"
           /\ 2 * enemies[1].hp < enemies[1].max_hp
           /\ dest \in RetreatOptions(from, last.occ_before)
           /\ \A n \in RetreatOptions(from, last.occ_before) :
                Manhattan(n, player.position) <= Manhattan(dest, player.position)
           /\ last.occupied = (last.occ_before \ {from}) \cup {dest}

\* a hurt Ghost with two free neighbours steps to the one farther from the
\* target
C26_Witness ==
    /\ last.op = "enemy_turn"
    /\ last.msg = "retreats"
    /\ Cardinality(RetreatOptions(last.before.position, last.occ_before)) >= 2
    /\ \E n \in RetreatOptions(last.before.position, last.occ_before) :
         Manhattan(n, player.position) < Manhattan(enemies[1].position, player.position)

\* C27: a successful cautious retreat never decreases the enemy's Manhattan
\* distance to the target; it never puts the enemy on the target's own tile.
C27_RetreatNotCloser ==
    (last.op = "enemy_turn" /\ last.msg = "retreats") =>
        /\ Manhattan(enemies[1].position, player.position)
             >= Manhattan(last.before.position, player.position)
        /\ enemies[1].position # player.position

\* the statuses whose tick only hurts or frightens
SoftStatuses == {"burn", "poison", "fear"}

\* C22: in take_turn the status tick ends the turn only when the enemy is
\* frozen or its hp reached 0 from status damage, and the turn then returns
\* the freeze or terminal message; an enemy carrying only burn, poison or fear
\* that survives the tick goes on to its movement decision in the same turn.
C22_TickEndsTurn ==
    last.op = "enemy_turn" =>
        LET frozen == st_get(last.before.status_effects, "freeze", 0) > 0
            died == enemies[1].hp <= 0
        IN /\ last.tick # "none" =>
                /\ frozen \/ died
                /\ last.msg = IF died THEN "succumbs" ELSE status_message("freeze")
           /\ (last.before.status_effects # <<>>
                 /\ st_kinds(last.before.status_effects) \subseteq SoftStatuses
                 /\ ~died) => last.tick = "none"

----------------------------------------------------------------------------
(* Two runs of the program fed the same inputs: which generator each        *)
(* probabilistic step draws from.  A generator made by random.Random(seed)  *)
(* returns a fixed stream, a function of the seed and of the number of      *)
(* draws made; a generator made by random.Random() is seeded from the       *)
(* operating system and may return any value.  A run is the generator its   *)
(* GameState carries and the history of what it has drawn: every other part *)
(* of the state (map, positions, hp, statuses, loot, log) is computed from  *)
(* the commands and these draws.                                             *)
MaxCommands == 3
NumValues == 2

Seeds == {1, 2, 3}

\* random.Random(seed), main.py:82
seeded_generator(seed) == [seeded |-> TRUE, seed |-> seed, pos |-> 0]

\* random.Random(), the default_factory of GameState.rng (main.py:36)
unseeded_generator == [seeded |-> FALSE, seed |-> 0, pos |-> 0]

\* load_game builds GameState without rng (main.py:101): the default_factory
load_generator == unseeded_generator

\* the values the next draw of generator g may return
rng_values(g) ==
    IF g.seeded THEN {(g.seed * (g.pos + 1) + g.pos) % NumValues} ELSE 0 .. NumValues - 1

\* a step that draws v from state.rng: generate(rng), take_turn(..., state.rng),
\* trigger_random_event, combat_loop (main.py:86, 163, 188, 223)
run_draw(run, what, v) ==
    [run EXCEPT !.rng.pos = @ + 1, !.history = Append(@, <<what, v>>)]

\* menu option 1: create_new_game(seed) in both runs
SeedNewGame(seed) ==
    /\ runs = <<>>
    /\ LET fresh == [rng |-> seeded_generator(seed), history |-> <<>>]
       IN \E v \in rng_values(fresh.rng) :
            runs' = <<run_draw(fresh, "generate", v), run_draw(fresh, "generate", v)>>
    /\ last' = [op |-> "new_game", seed |-> seed]
    /\ UNCHANGED <<mapVars, player, enemies, ops, combat, world>>

\* the same command in both runs: "r" or "z", with the draws of
\* trigger_random_event and update_enemies
SeedTurn(cmd) ==
    /\ Len(runs) = 2
    /\ ops < MaxCommands
    /\ \E va \in rng_values(runs[1].rng), vb \in rng_values(runs[2].rng) :
         runs' = <<run_draw(runs[1], cmd, va), run_draw(runs[2], cmd, vb)>>
    /\ ops' = ops + 1
    /\ last' = [op |-> "turn", cmd |-> cmd]
    /\ UNCHANGED <<mapVars, player, enemies, combat, world>>

\* "q" with the save accepted (main.py:472-486), then menu option 2:
\* load_game (main.py:96-108), in both runs
SeedSaveLoad ==
    /\ Len(runs) = 2
    /\ ops < MaxCommands
    /\ runs' = [i \in 1 .. 2 |-> [runs[i] EXCEPT !.rng = load_generator]]
    /\ ops' = ops + 1
    /\ last' = [op |-> "save_load"]
    /\ UNCHANGED <<mapVars, player, enemies, combat, world>>

InitSeed ==
    /\ tiles = AllWalls
    /\ rooms = <<>>
    /\ start_position = <<1, 1>>
    /\ stairs_position = <<MapWidth - 2, MapHeight - 2>>
    /\ visible = {}
    /\ revealed = {}
    /\ attempts = 0
    /\ gpc = "idle"
    /\ IdleAgents
    /\ last = NoLast

NextSeed ==
    \/ \E seed \in Seeds : SeedNewGame(seed)
    \/ \E cmd \in {"r", "z"} : SeedTurn(cmd)
    \/ SeedSaveLoad

SpecSeed == InitSeed /\ [][NextSeed]_vars

\* C17: two runs started from the same seed and fed the same commands pass
\* through identical states: every probabilistic step draws from the one
\* seeded generator carried in the game state.
C17_SameSeedSameStates ==
    Len(runs) = 2 => runs[1].history = runs[2].history

----------------------------------------------------------------------------
(* The item operations called with names inside and outside ITEM_LIBRARY.   *)
(* last.outcome is "raised" when the call leaves by an exception and        *)
(* "returned" when it returns normally.                                      *)
MaxItemOps == 3

\* names of the library, and one that is not in it
ItemArgs == {"Bread", "Dagger", "Bone Bow", "Hide Armor", "Torch", "Moonstone"}

\* Inventory.add_item(name)
ItemAdd(name) ==
    /\ ops < MaxItemOps
    /\ LET r == add_item(player.inventory, name, 1) IN
         /\ player' = [player EXCEPT !.inventory = r.inv]
         /\ last' = [op |-> "add_item", name |-> name, before |-> player,
                     outcome |-> IF r.raised THEN "raised" ELSE "returned"]
    /\ ops' = ops + 1
    /\ UNCHANGED <<enemies, mapVars, ctlVars>>

\* Player.equip_item(name): every path ends in a return
ItemEquip(name) ==
    /\ ops < MaxItemOps
    /\ player' = equip_item(player, name)
    /\ last' = [op |-> "equip_item", name |-> name, before |-> player, outcome |-> "returned"]
    /\ ops' = ops + 1
    /\ UNCHANGED <<enemies, mapVars, ctlVars>>

\* Player.use_item(name): every path ends in a return
ItemUse(name) ==
    /\ ops < MaxItemOps
    /\ player' = use_item(player, name)
    /\ last' = [op |-> "use_item", name |-> name, before |-> player, outcome |-> "returned"]
    /\ ops' = ops + 1
    /\ UNCHANGED <<enemies, mapVars, ctlVars>>

\* Inventory.has_item(name): returns a bool
ItemLookup(name) ==
    /\ ops < MaxItemOps
    /\ last' = [op |-> "has_item", name |-> name, before |-> player, outcome |-> "returned",
                result |-> has_item(player.inventory, name)]
    /\ ops' = ops + 1
    /\ UNCHANGED <<player, enemies, mapVars, ctlVars>>

InitItems ==
    /\ tiles = AllWalls
    /\ rooms = <<>>
    /\ start_position = <<1, 1>>
    /\ stairs_position = <<MapWidth - 2, MapHeight - 2>>
    /\ visible = {}
    /\ revealed = {}
    /\ attempts = 0
    /\ gpc = "idle"
    /\ IdleAgents
    /\ last = NoLast

NextItems ==
    \/ \E name \in ItemArgs : ItemAdd(name)
    \/ \E name \in ItemArgs : ItemEquip(name)
    \/ \E name \in ItemArgs : ItemUse(name)
    \/ \E name \in ItemArgs : ItemLookup(name)

SpecItems == InitItems /\ [][NextItems]_vars

\* C18: an item name outside the catalog given to the equip, use, add or
\* lookup operation ends in a propagated error, never in a normal return, and
\* leaves the player's equipment and inventory as they were.
C18_UnknownItemRaises ==
    (last.op \in {"add_item", "equip_item", "use_item", "has_item"}
       /\ last.name \notin ItemNames) =>
        /\ last.outcome = "raised"
        /\ player = last.before

----------------------------------------------------------------------------
(* The operations of one DungeonMap object, called in any order: reveal,    *)
(* reveal_around, set_tile, place_item, take_items and generate (taken as   *)
(* one step from its first line to its last).  world.items is the items     *)
(* dictionary, as the sequence of its (position, name) entries.             *)
MaxMapOps == 3

\* the positions the calls are given: a corner, the start of the smallest
\* level and a tile far from it
MapPoints == { <<0, 0>>, <<1, 1>>, <<MapWidth - 2, MapHeight - 2>> }

\* the room lists the placement loop of generate may end with: none (the
\* fallback of lines 177-180), two rooms and three rooms
MapLayouts == { <<>>, WorldRooms, CrowdRooms }

\* the tiles the placement loop leaves for a room list (lines 162-175, the
\* corridor coin at heads)
RECURSIVE layout_tiles(_, _)
layout_tiles(rs, n) ==
    IF n = 0 THEN AllWalls
    ELSE IF n = 1 THEN create_room(AllWalls, rs[1])
    ELSE create_corridor(create_room(layout_tiles(rs, n - 1), rs[n]),
                         center(rs[n - 1]), center(rs[n]), TRUE)

\* DungeonMap.reveal (map_gen.py:121-122)
MapReveal(p) ==
    /\ ops < MaxMapOps
    /\ revealed' = revealed \cup {p}
    /\ ops' = ops + 1
    /\ last' = [op |-> "reveal", p |-> p]
    /\ UNCHANGED <<tiles, rooms, start_position, stairs_position, visible, attempts, gpc,
                   player, enemies, combat, world, runs>>

\* DungeonMap.reveal_around (map_gen.py:124-133)
MapRevealAround(p, radius) ==
    /\ ops < MaxMapOps
    /\ visible' = reveal_around_visible(visible, p, radius)
    /\ revealed' = reveal_around_revealed(revealed, p, radius)
    /\ ops' = ops + 1
    /\ last' = [op |-> "reveal_around", p |-> p, r |-> radius]
    /\ UNCHANGED <<tiles, rooms, start_position, stairs_position, attempts, gpc,
                   player, enemies, combat, world, runs>>

\* DungeonMap.set_tile (map_gen.py:114-116)
MapSetTile(p, value) ==
    /\ ops < MaxMapOps
    /\ tiles' = set_tiles(tiles, {p}, value)
    /\ ops' = ops + 1
    /\ last' = [op |-> "set_tile", p |-> p]
    /\ UNCHANGED <<rooms, start_position, stairs_position, visible, revealed, attempts, gpc,
                   player, enemies, combat, world, runs>>

\* DungeonMap.place_item (map_gen.py:135-136)
MapPlaceItem(p, name) ==
    /\ ops < MaxMapOps
    /\ world' = [world EXCEPT !.items = Append(@, <<p, name>>)]
    /\ ops' = ops + 1
    /\ last' = [op |-> "place_item", p |-> p]
    /\ UNCHANGED <<mapVars, player, enemies, combat, runs>>

\* DungeonMap.take_items (map_gen.py:138-139)
MapTakeItems(p) ==
    /\ ops < MaxMapOps
    /\ world' = [world EXCEPT !.items = SelectSeq(@, LAMBDA it : it[1] # p)]
    /\ ops' = ops + 1
    /\ last' = [op |-> "take_items", p |-> p]
    /\ UNCHANGED <<mapVars, player, enemies, combat, runs>>

\* DungeonMap.generate (map_gen.py:150-197) on the map as it is: the resets
\* of lines 152-158, the rooms of the loop, then lines 177-197.  loot is the
\* draw of populate_items for the first room.
MapGenerate(rs0, loot) ==
    /\ ops < MaxMapOps
    /\ LET rs == gen_rooms_final(rs0) IN
         /\ rooms' = rs
         /\ tiles' = gen_tiles_final(layout_tiles(rs0, Len(rs0)), rs0)
         /\ start_position' = gen_start_of(rs)
         /\ stairs_position' = gen_stairs_of(rs)
         /\ visible' = reveal_around_visible(visible, gen_start_of(rs), GenRevealRadius)
         /\ revealed' = reveal_around_revealed({}, gen_start_of(rs), GenRevealRadius)
         /\ world' = [world EXCEPT !.items =
                        (IF loot THEN << <<center(rs[1]), "Bandage">> >> ELSE <<>>)
                          \o << <<gen_start_of(rs), "Torch">>, <<gen_start_of(rs), "Bread">> >>]
    /\ attempts' = MaxRooms * 2
    /\ gpc' = "done"
    /\ ops' = ops + 1
    /\ last' = [op |-> "generate"]
    /\ UNCHANGED <<player, enemies, combat, runs>>

\* DungeonMap.__init__ (map_gen.py:49-62)
InitMap ==
    /\ tiles = AllWalls
    /\ rooms = <<>>
    /\ start_position = <<1, 1>>
    /\ stairs_position = <<MapWidth - 2, MapHeight - 2>>
    /\ visible = {}
    /\ revealed = {}
    /\ attempts = 0
    /\ gpc = "idle"
    /\ player = default_player
    /\ enemies = <<>>
    /\ ops = 0
    /\ combat = IdleCombat
    /\ world = [pc |-> "map", items |-> <<>>]
    /\ runs = IdleRuns
    /\ last = NoLast

NextMap ==
    \/ \E p \in MapPoints : MapReveal(p)
    \/ \E p \in MapPoints, radius \in 0 .. MaxRadius : MapRevealAround(p, radius)
    \/ \E p \in MapPoints : MapSetTile(p, TILE_FLOOR)
    \/ \E p \in MapPoints : MapPlaceItem(p, "Torch")
    \/ \E p \in MapPoints : MapTakeItems(p)
    \/ \E rs0 \in MapLayouts, loot \in BOOLEAN : MapGenerate(rs0, loot)

SpecMap == InitMap /\ [][NextMap]_vars

\* C21: the revealed set of a map only grows: no operation on the map
\* (reveal, reveal_around, generate, a tile write, item placement or pickup)
\* removes a coordinate that was revealed before it.
C21_RevealedGrows == [][revealed \subseteq revealed']_vars

----------------------------------------------------------------------------
(* The player's own operations, one call per step, on a player who may      *)
(* start hurt.                                                              *)
MaxLevel == 5

MaxVitalOps == 3

\* the xp_reward of a Rat, a Mimic and the Shadow Queen (enemy_ai.py:314, 407,
\* 428), a full first threshold, and nothing
XpAmounts == {0, 6, 25, 60, 90}

HurtPlayer == [default_player EXCEPT !.hp = 5, !.stamina = 2, !.sanity = 9]

\* Player.gain_xp(amount), as main.py:289 calls it after a victory
VitalGainXp(amount) ==
    /\ player.level < MaxLevel
    /\ ops < MaxVitalOps
    /\ player' = gain_xp(player, amount)
    /\ ops' = ops + 1
    /\ last' = [op |-> "gain_xp", amount |-> amount, before |-> player]
    /\ UNCHANGED <<enemies, mapVars, ctlVars>>

StarvedPlayer ==
    [default_player EXCEPT !.hp = 1, !.stamina = 1, !.sanity = 2,
                           !.hunger = 1, !.fatigue = 98]

\* Player.spend_skill_point (player.py:289-308)
spend_skill_point(p, attribute) ==
    IF p.skill_points <= 0 \/ attribute \notin {"hp", "stamina", "sanity", "attack", "defense"}
    THEN p
    ELSE LET q == CASE attribute = "hp" -> [p EXCEPT !.max_hp = @ + 5]
                    [] attribute = "stamina" -> [p EXCEPT !.max_stamina = @ + 4]
                    [] attribute = "sanity" -> [p EXCEPT !.max_sanity = @ + 3]
                    [] attribute = "attack" -> [p EXCEPT !.base_attack = @ + 1]
                    [] OTHER -> [p EXCEPT !.base_defense = @ + 1]
         IN [q EXCEPT !.skill_points = @ - 1,
                      !.hp = Min2(q.hp, q.max_hp),
                      !.stamina = Min2(q.stamina, q.max_stamina),
                      !.sanity = Min2(q.sanity, q.max_sanity)]

\* Player.restore_sanity (player.py:450-451)
restore_sanity(p, amount) == [p EXCEPT !.sanity = Min2(p.max_sanity, p.sanity + amount)]

\* EventSystem.hallucination_event (event_system.py:84-86) for the loss drawn
hallucination_event(p, loss) == [p EXCEPT !.sanity = Max2(0, p.sanity - loss)]

\* Player.adjust_temperature (player.py:225-232)
adjust_temperature(p, delta) ==
    LET t == Max2(0, Min2(120, p.temperature + delta))
        q == [p EXCEPT !.temperature = t]
    IN IF t < 40 THEN [q EXCEPT !.stamina = Max2(0, q.stamina - 2)]
       ELSE IF t > 90 THEN [q EXCEPT !.hunger = Max2(0, q.hunger - 2)]
       ELSE q

\* Player.rest(at_campfire=True) (player.py:235-249)
rest_at_campfire(p) ==
    LET p1 == consume_resources([p EXCEPT !.time_spent = @ + 1])
    IN [p1 EXCEPT !.stamina = Min2(p1.max_stamina, p1.stamina + 6),
                  !.hp = Min2(p1.max_hp, p1.hp + 4),
                  !.sanity = Min2(p1.max_sanity, p1.sanity + 3),
                  !.fatigue = Max2(0, p1.fatigue - 15),
                  !.temperature = IF "Campfire" \notin p1.traits
                                  THEN Min2(70, Max2(50, p1.temperature + 5)) ELSE @]

\* Player.sleep_turn(at_campfire=True) (player.py:251-262)
sleep_at_campfire(p) ==
    LET p1 == consume_resources([p EXCEPT !.time_spent = @ + 1])
    IN [p1 EXCEPT !.fatigue = Max2(0, p1.fatigue - 35),
                  !.stamina = Min2(p1.max_stamina, p1.stamina + 7),
                  !.hp = Min2(p1.max_hp, p1.hp + 3),
                  !.sanity = Min2(p1.max_sanity, p1.sanity + 3),
                  !.temperature = Min2(75, Max2(50, p1.temperature + 8))]

\* the enemy's blow of combat_loop (main.py:270-276) on an unguarded,
\* unblocked player
riposte_hit(p, base_damage) ==
    [p EXCEPT !.hp = Max2(0, p.hp - Max2(1, base_damage - player_defense(p)))]

\* one operation on the player, recorded with the player before it
VitalStep(op, q) ==
    /\ player' = q
    /\ ops' = ops + 1
    /\ last' = [op |-> op, before |-> player]
    /\ UNCHANGED <<enemies, mapVars, ctlVars>>

\* Player.move to the neighbouring tile and back
VitalMove ==
    /\ ops < MaxVitalOps
    /\ VitalStep("move", move_to(player, IF player.position = <<1, 1>> THEN <<2, 1>>
                                                                       ELSE <<1, 1>>))

\* "r" and "z" with the random event that follows (main.py:162-180)
VitalRest(cmd, ev) ==
    /\ ops < MaxVitalOps
    /\ VitalStep(cmd, trigger_random_event(IF cmd = "r" THEN rest(player)
                                                        ELSE sleep_turn(player), ev))

\* the campfire menu's "1" and "2" (main.py:386-393)
VitalCampfire(choice, ev) ==
    /\ ops < MaxVitalOps
    /\ VitalStep("campfire", trigger_random_event(IF choice = "1" THEN rest_at_campfire(player)
                                                                ELSE sleep_at_campfire(player), ev))

VitalUseItem(item_name) ==
    /\ ops < MaxVitalOps
    /\ has_item(player.inventory, item_name)
    /\ VitalStep("use_item", use_item(player, item_name))

VitalRiposte(base_damage) ==
    /\ ops < MaxVitalOps
    /\ VitalStep("riposte", riposte_hit(player, base_damage))

VitalStrike(amount) ==
    /\ ops < MaxVitalOps
    /\ VitalStep("strike", spend_stamina(player, amount))

VitalHallucination(loss) ==
    /\ ops < MaxVitalOps
    /\ VitalStep("hallucination", hallucination_event(player, loss))

VitalRestoreSanity(amount) ==
    /\ ops < MaxVitalOps
    /\ VitalStep("restore_sanity", restore_sanity(player, amount))

VitalSpend(attribute) ==
    /\ ops < MaxVitalOps
    /\ player.skill_points > 0
    /\ VitalStep("spend_skill_point", spend_skill_point(player, attribute))

VitalTrait(trait) ==
    /\ ops < MaxVitalOps
    /\ trait \notin player.traits
    /\ VitalStep("apply_trait", apply_trait(player, trait))

VitalTemperature(delta) ==
    /\ ops < MaxVitalOps
    /\ VitalStep("adjust_temperature", adjust_temperature(player, delta))

InitPlayer ==
    /\ tiles = AllWalls
    /\ rooms = <<>>
    /\ start_position = <<1, 1>>
    /\ stairs_position = <<MapWidth - 2, MapHeight - 2>>
    /\ visible = {}
    /\ revealed = {}
    /\ attempts = 0
    /\ gpc = "idle"
    /\ player \in {default_player, HurtPlayer, StarvedPlayer}
    /\ enemies = <<>>
    /\ ops = 0
    /\ combat = IdleCombat
    /\ world = IdleWorld
    /\ runs = IdleRuns
    /\ last = NoLast

NextPlayer ==
    \/ \E amount \in XpAmounts : VitalGainXp(amount)
    \/ VitalMove
    \/ \E cmd \in {"r", "z"}, ev \in {"none", "poison", "hallucination"} : VitalRest(cmd, ev)
    \/ \E choice \in {"1", "2"}, ev \in {"none", "hallucination"} : VitalCampfire(choice, ev)
    \/ \E item_name \in {"Bread", "Bandage"} : VitalUseItem(item_name)
    \/ \E base_damage \in {3, 12, 40} : VitalRiposte(base_damage)
    \/ \E amount \in {3, 4} : VitalStrike(amount)
    \/ \E loss \in {1, 5} : VitalHallucination(loss)
    \/ \E amount \in {2, 4} : VitalRestoreSanity(amount)
    \/ \E attribute \in {"hp", "stamina", "sanity", "attack", "defense"} : VitalSpend(attribute)
    \/ \E trait \in {"Mind Anchor", "Quickstep", "Vital Bloom"} : VitalTrait(trait)
    \/ \E delta \in {-30, 40} : VitalTemperature(delta)

SpecPlayer == InitPlayer /\ [][NextPlayer]_vars

\* C33: after gain_xp with a non-negative amount, 0 <= xp < xp_to_next and
\* xp_to_next = 25 + 15 * (level - 1); the skill points granted equal the
\* levels gained, which may be several in one call, and after a level-up hp,
\* stamina and sanity equal their raised maxima.
C33_GainXp ==
    last.op = "gain_xp" =>
        LET b == last.before
            gained == player.level - b.level
        IN /\ 0 <= player.xp
           /\ player.xp < player.xp_to_next
           /\ player.xp_to_next = 25 + 15 * (player.level - 1)
           /\ gained >= 0
           /\ player.skill_points = b.skill_points + gained
           /\ gained > 0 =>
                 /\ player.max_hp = b.max_hp + 4 * gained
                 /\ player.max_stamina = b.max_stamina + 3 * gained
                 /\ player.max_sanity = b.max_sanity + 2 * gained
                 /\ player.hp = player.max_hp
                 /\ player.stamina = player.max_stamina
                 /\ player.sanity = player.max_sanity

\* one call raised a hurt player by two levels
C33_Witness ==
    /\ last.op = "gain_xp"
    /\ player.level >= last.before.level + 2
    /\ last.before.hp < last.before.max_hp
    /\ player.hp = player.max_hp

\* C40: whatever the player does (move, rest, sleep, use an item, take a
\* blow, suffer an event or a status tick, level up, spend a skill point),
\* hp, stamina, sanity, hunger and fatigue stay between 0 and their maxima.
C40_VitalsInRange ==
    /\ 0 <= player.hp /\ player.hp <= player.max_hp
    /\ 0 <= player.stamina /\ player.stamina <= player.max_stamina
    /\ 0 <= player.sanity /\ player.sanity <= player.max_sanity
    /\ 0 <= player.hunger /\ player.hunger <= player.max_hunger
    /\ 0 <= player.fatigue /\ player.fatigue <= player.max_fatigue

\* a rest of a starving player capped hp and stamina at their maxima while
\* hunger stood at 0
C40_Witness ==
    /\ last.op = "r"
    /\ last.before.hp = last.before.max_hp
    /\ player.hp = player.max_hp
    /\ player.stamina = player.max_stamina
    /\ player.hunger = 0

====
